---- MODULE Spec2Model ----
(***************************************************************************)
(* Capacity-safe registration of nextlinkers/digicon.                      *)
(*                                                                         *)
(*   File Backend          json_store.js  (src/unnamed/part_002)           *)
(*   Transactional Backend mongo_store.js (src/unnamed/part_000)           *)
(*   Registration Service  app.js         (src/app.js)                     *)
(*                                                                         *)
(* Every request is a slot.  A slot runs one call at a time; a call is a   *)
(* chain of actions, one per await of the source: the action performs the  *)
(* awaited storage operation and the synchronous code up to the next       *)
(* await.  Where that synchronous code writes state shared inside the      *)
(* process (memoryData) it is an action of its own, because the storage    *)
(* operation takes effect before the continuation runs.                    *)
(***************************************************************************)
EXTENDS Integers, Sequences, FiniteSets, TLC

VARIABLES
    \* ---- calls (both backends)
    pc,         \* pc[s]: position of slot s in its call
    op,         \* op[s]: the call's arguments [kind, teamNumber, problemStatementId]
    result,     \* result[s]: what the call returned
    calls,      \* number of calls started so far
    \* ---- File Backend: the shared directory
    file,       \* data.json: the persisted document
    tmp,        \* data.json.tmp: NoFile, or <<document>>
    lock,       \* data.json.lock: 0 when absent, else the slot that created it
    \* ---- File Backend: per node process
    memoryData, \* memoryData[h]: this.memoryData of process h
    \* ---- File Backend: per call
    attempt,    \* attempt[s]: loop counter of createRegistrationAtomic
    data,       \* data[s]: the document the call holds
    failed,     \* failed[s]: an exception is propagating out of the critical section
    changes,    \* changes[s]: rows a deleteRegistration call reports
    \* ---- observers (not program state)
    preTaken,   \* preTaken[s]: the team was in the persisted state when the call began
    overlapped, \* overlapped[s]: another call for the same team ran during this one
    expect,     \* expect[k]: what completed, non-overlapping calls promise for team k
    delMiss,    \* a deleteRegistration call has ended without reporting a removed row
    \* ---- Transactional Backend: the database (committed state)
    regs,       \* the registrations collection
    sel,        \* sel[id]: stored selectedCount of statement id (a missing field is 0)
    \* ---- Transactional Backend: per call
    cur,        \* cur[s]: currentSelected, from the transaction's snapshot
    act,        \* act[s]: actualCount, from the transaction's snapshot
    wsel,       \* wsel[s]: the transaction's uncommitted selectedCount, or NoWrite
    touched,    \* touched[s]: keys committed by others since the transaction's snapshot
    dreg,       \* dreg[s]: problemStatementId of the document deleteRegistration found
    \* ---- observers of the Transactional Backend (not program state)
    alone,      \* alone[s]: no other call was in flight at any time of this call
    preRegs,    \* preRegs[s]: the registrations collection when the call began
    preSel,     \* preSel[s]: the stored selectedCounts when the call began
    \* ---- Registration Service: per request
    view,       \* view[s]: targetProblem of the availability view the request loaded
    response,   \* response[s]: the answer sent
    \* ---- the server
    db,         \* the backend app.js selected: "json" or "mongo" ("unset": no server)
    log,        \* observer: the requests answered so far, in order
    \* ---- the stores before and during init() and resetAll()
    exists,     \* data.json exists
    psColl,     \* Transactional Backend: the problem_statements collection
    psIndex,    \* Transactional Backend: the unique index on problem_statements.id exists
    thisDb,     \* thisDb[h]: this.db of the MongoStore of process h is set
    before,     \* observer: before[s], the catalog and registrations when the call began
    \* ---- the requests as received
    body,       \* body[s]: req.body of the register request in slot s
    clients,    \* clients: connectedClients, in insertion order
    broken,     \* broken: the subscribers whose res.write throws
    delivered,  \* observer: delivered[c], change notifications written to subscriber c
    vercel,     \* vercel: process.env.VERCEL is set (the managed environment)
    reachable,  \* reachable: the MongoDB server answers
    boot,       \* boot: how far app.js has started
    problemsReleased,\* problemsReleased: app.locals.problemsReleased of the process
    settings,   \* settings: data.problemsReleased of the settings record 'global'
    regsIndex   \* regsIndex: the unique index on registrations.teamNumber exists

fileVars == <<file, tmp, lock, memoryData, attempt, data, failed>>

mongoVars == <<regs, sel, cur, act, wsel, touched, dreg, alone, preRegs, preSel>>

svcVars == <<view, response>>

subscriberVars == <<clients, broken, delivered>>

bootVars == <<vercel, reachable, boot>>

releaseVars == <<problemsReleased, settings>>

\* Variables that only the actions written for them change.
extraVars == <<body, clients, broken, delivered, vercel, reachable, boot, problemsReleased, settings, regsIndex>>

runVars == <<db, log, exists, psColl, psIndex, thisDb, before, extraVars>>

vars == <<pc, op, result, calls, file, tmp, lock, memoryData, attempt, data, failed, changes,
          preTaken, overlapped, expect, delMiss,
          regs, sel, cur, act, wsel, touched, dreg, alone, preRegs, preSel,
          view, response, db, log, exists, psColl, psIndex, thisDb, before, body, clients, broken, delivered, vercel, reachable, boot, problemsReleased, settings, regsIndex>>

----------------------------------------------------------------------------
(* Bounds and inputs *)

\* Calls started in one behaviour of the File Backend.
MaxCalls == 3

\* Calls started in one behaviour of the Transactional Backend.
MaxMongoCalls == 5

\* Requests the sequential client sends in one behaviour.
MaxSeqCalls == 5

\* Times one call finds the lock marker present and retries, in one behaviour
\* (the loop itself stops at maxRetries).
MaxSpins == 1

\* The same, in behaviours where the holder of the marker is slow; one more
\* than the loop allows.
MaxLockSpins == 11

\* Request slots.  Against a backend, slots 1 and 2 send register requests
\* and slot 3 sends delete requests.  Slots 1 and 3 are concurrent requests
\* of node process 1, slot 2 is a request of node process 2; both processes
\* share the data directory, or the database.
Slots == {1, 2, 3}
Registrars == {1, 2}
Deleters == {3}
Hosts == {1, 2}
HostOf(s) == IF s = 2 THEN 2 ELSE 1

\* Team numbers are character sequences, so that trimming is computed.
\* The requests each registrar may send: between them, three teams for ps001
\* (maxSelections 2), the same team with and without surrounding blanks for
\* two statements, the same team for the same statement, and a statement
\* that is not in the catalog.
RegisterInputs(s) ==
    IF s = 1
    THEN { << <<"A">>, "ps001" >>, << <<"B">>, "ps001" >>, << <<"C">>, "ps404" >> }
    ELSE { << <<" ", "A", " ">>, "ps002" >>, << <<"B">>, "ps001" >>, << <<"C">>, "ps001" >> }

DeleteInputs == { <<"A">>, <<"B", " ">> }

\* The requests sent to the Transactional Backend: between them three teams
\* for ps001, the same team with and without surrounding blanks for two
\* statements, and a statement that is not in the catalog.
MongoRegisterInputs(s) ==
    IF s = 1
    THEN { << <<"A">>, "ps001" >>, << <<"C">>, "ps404" >> }
    ELSE { << <<" ", "A", " ">>, "ps002" >>, << <<"B">>, "ps001" >>, << <<"C">>, "ps001" >> }

MongoDeleteInputs == { <<"A", " ">> }

\* The Registration Service is driven by two concurrent requests of one
\* node process.
SvcSlots == {1, 3}

\* The request bodies: three teams for ps001, a body without teamNumber and
\* a statement that is not in the catalog.
SvcInputs(s) ==
    IF s = 1
    THEN { << <<"A">>, "ps001" >>, << <<"B">>, "ps001" >> }
    ELSE { << <<"C">>, "ps001" >>, << <<>>, "ps001" >>, << <<"B">>, "ps404" >> }

\* One client that waits for each answer before its next request: registers
\* of three teams, one of them also written with a trailing blank, for
\* ps001, and deletes of two teams.
SeqRegisterInputs == { << <<"A">>, "ps001" >>, << <<"B">>, "ps001" >>, << <<"C">>, "ps001" >> }

SeqDeleteInputs == { <<"A">>, <<"B", " ">> }

\* Register requests to a server of two node processes (slot 1 is served by
\* process 1, slot 2 by process 2): a team and the same team written with
\* blanks, for statements that exist, that fill up and that are not in the
\* catalog.
AppInputs(s) ==
    IF s = 1
    THEN { << <<"A">>, "ps001" >>, << <<"C">>, "ps001" >>, << <<"B">>, "ps404" >> }
    ELSE { << <<" ", "A", " ">>, "ps002" >>, << <<" ", "A", " ">>, "ps001" >>,
           << <<"A">>, "ps404" >> }

TeamInputs ==
    { r[1] : r \in RegisterInputs(1) \cup RegisterInputs(2)
                   \cup MongoRegisterInputs(1) \cup MongoRegisterInputs(2)
                   \cup SvcInputs(1) \cup SvcInputs(3) }
        \cup DeleteInputs \cup MongoDeleteInputs

\* A file that may be missing is a sequence: empty (ENOENT) or its content.
NoFile == <<>>
NoDoc  == [problemStatements |-> <<>>, registrations |-> <<>>]

----------------------------------------------------------------------------
(* String(x).trim() *)

RECURSIVE TrimStart(_)
TrimStart(s) == IF s # <<>> /\ Head(s) = " " THEN TrimStart(Tail(s)) ELSE s

RECURSIVE TrimEnd(_)
TrimEnd(s) == IF s # <<>> /\ s[Len(s)] = " " THEN TrimEnd(SubSeq(s, 1, Len(s) - 1)) ELSE s

Trim(s) == TrimEnd(TrimStart(s))

TeamKeys == { Trim(t) : t \in TeamInputs }

----------------------------------------------------------------------------
(* File Backend: documents *)

maxRetries == 10

SeedMaxSelections == 2

\* seedProblemStatements: the default catalog.
defaults ==
    << [id |-> "ps001", maxSelections |-> SeedMaxSelections],
       [id |-> "ps002", maxSelections |-> SeedMaxSelections],
       [id |-> "ps003", maxSelections |-> SeedMaxSelections] >>

\* The document after init(): seeded catalog, no registrations.
SeededDoc == [problemStatements |-> defaults, registrations |-> <<>>]

\* data.registrations.some(r => String(r.teamNumber).trim() === target)
TeamTaken_NoTrim(docs, teamNumber) ==
    \E i \in 1..Len(docs) : docs[i].teamNumber = teamNumber

TeamTaken(docs, teamNumber) ==
    \E i \in 1..Len(docs) : Trim(docs[i].teamNumber) = Trim(teamNumber)

\* data.problemStatements.find(p => p.id === id): its index, or 0.
FindPs_Any(doc, id) == 1

FindPs(doc, id) ==
    IF \E i \in 1..Len(doc.problemStatements) : doc.problemStatements[i].id = id
    THEN CHOOSE i \in 1..Len(doc.problemStatements) :
            /\ doc.problemStatements[i].id = id
            /\ \A j \in 1..(i - 1) : doc.problemStatements[j].id # id
    ELSE 0

\* data.registrations.filter(r => r.problemStatementId === ps.id).length
RegCount(docs, id) == Len(SelectSeq(docs, LAMBDA r : r.problemStatementId = id))

\* if (current >= ps.maxSelections) return null
IsFull_OffByOne(current, maxSelections) == current > maxSelections

IsFull(current, maxSelections) == current >= maxSelections

\* The record createRegistrationAtomic builds.
Record(teamNumber, id) == [teamNumber |-> Trim(teamNumber), problemStatementId |-> id]

\* data.registrations.filter(r => String(r.teamNumber).trim() !== target)
WithoutTeam(docs, teamNumber) ==
    SelectSeq(docs, LAMBDA r : Trim(r.teamNumber) # Trim(teamNumber))

----------------------------------------------------------------------------
(* Observers *)

Idle(s) == pc[s] = "idle"
Quiescent == \A s \in Slots : Idle(s)

SameTeamInFlight(s, teamNumber) ==
    \E o \in Slots \ {s} : ~Idle(o) /\ Trim(op[o].teamNumber) = Trim(teamNumber)

\* A call begins: it and every in-flight call for the same team overlap.
BeginOverlap(s, teamNumber) ==
    [o \in Slots |->
        IF o = s THEN SameTeamInFlight(s, teamNumber)
        ELSE IF ~Idle(o) /\ Trim(op[o].teamNumber) = Trim(teamNumber) THEN TRUE
        ELSE overlapped[o]]

NoOp == [kind |-> "none", teamNumber |-> <<>>, problemStatementId |-> ""]

----------------------------------------------------------------------------
(* File Backend: initial state, after init() of every process *)

InitCalls ==
    /\ pc = [s \in Slots |-> "idle"]
    /\ op = [s \in Slots |-> NoOp]
    /\ result = [s \in Slots |-> "none"]
    /\ calls = 0
    /\ attempt = [s \in Slots |-> 0]
    /\ data = [s \in Slots |-> NoDoc]
    /\ failed = [s \in Slots |-> FALSE]
    /\ changes = [s \in Slots |-> 0]
    /\ preTaken = [s \in Slots |-> FALSE]
    /\ overlapped = [s \in Slots |-> FALSE]
    /\ expect = [k \in TeamKeys |-> "absent"]
    /\ delMiss = FALSE

InitFile ==
    /\ file = SeededDoc
    /\ tmp = NoFile
    /\ lock = 0
    /\ memoryData = [h \in Hosts |-> SeededDoc]

\* Transactional Backend after init(): the seeded catalog, whose documents
\* have no selectedCount field, and no registrations.
PsIds == { defaults[i].id : i \in 1..Len(defaults) }

NoTouch == [ps |-> {}, team |-> {}]

InitMongo ==
    /\ regs = <<>>
    /\ sel = [id \in PsIds |-> 0]
    /\ cur = [s \in Slots |-> 0]
    /\ act = [s \in Slots |-> 0]
    /\ wsel = [s \in Slots |-> <<>>]
    /\ touched = [s \in Slots |-> NoTouch]
    /\ dreg = [s \in Slots |-> ""]
    /\ alone = [s \in Slots |-> FALSE]
    /\ preRegs = [s \in Slots |-> <<>>]
    /\ preSel = [s \in Slots |-> [id \in PsIds |-> 0]]

NoView == [selectedCount |-> 0, maxSelections |-> 0, isAvailable |-> FALSE]

InitSvc ==
    /\ view = [s \in Slots |-> NoView]
    /\ response = [s \in Slots |-> "none"]

NoStore == [catalog |-> <<>>, registrations |-> <<>>]

\* The clients that subscribe to GET /api/events.
Subscribers == {"c1", "c2"}

NoBody == [teamNumber |-> <<>>, teamName |-> "", teamLeader |-> "", problemStatementId |-> ""]
\* A process that has started outside the managed environment, with MongoDB
\* answering.
InitServing ==
    /\ vercel = FALSE
    /\ reachable = TRUE
    /\ boot = "serving"

InitRequests ==
    /\ body = [s \in Slots |-> NoBody]
    /\ clients = <<>>
    /\ broken = {}
    /\ delivered = [c \in Subscribers |-> 0]
    /\ InitServing
    /\ problemsReleased = "undefined"
    /\ settings = "undefined"

InitExtra ==
    /\ InitRequests
    /\ regsIndex = TRUE

\* Both stores after init() of every process: data.json exists, the catalog
\* is seeded under its unique index, and every MongoStore is connected.
InitCatalog ==
    /\ exists = TRUE
    /\ psColl = defaults
    /\ psIndex = TRUE
    /\ thisDb = [h \in Hosts |-> TRUE]
    /\ before = [s \in Slots |-> NoStore]

InitStore ==
    /\ InitCatalog
    /\ InitExtra

\* The backends driven directly, without a server.
InitRun ==
    /\ db = "unset"
    /\ log = <<>>
    /\ InitStore

Init == InitCalls /\ InitFile /\ InitMongo /\ InitSvc /\ InitRun

----------------------------------------------------------------------------
(* Calls: begin and end (both backends) *)

Team(s) == Trim(op[s].teamNumber)

BeginCall(s, kind, teamNumber, id, taken, limit) ==
    /\ Idle(s)
    /\ calls < limit
    /\ calls' = calls + 1
    /\ op' = [op EXCEPT ![s] = [kind |-> kind, teamNumber |-> teamNumber,
                                problemStatementId |-> id]]
    /\ result' = [result EXCEPT ![s] = "none"]
    /\ preTaken' = [preTaken EXCEPT ![s] = taken]
    /\ overlapped' = BeginOverlap(s, teamNumber)
    /\ UNCHANGED <<expect, delMiss>>

\* What a completed call promises about its team: nothing when another call
\* for that team ran beside it; present after a successful register, absent
\* after a delete that removed a row; otherwise what was promised before.
Promise(s) ==
    IF overlapped[s] THEN "any"
    ELSE IF op[s].kind = "create" /\ result[s] = "ok" THEN "present"
    ELSE IF op[s].kind = "delete" /\ result[s] = "ok" /\ changes[s] > 0 THEN "absent"
    ELSE expect[Team(s)]

EndCall(s, at) ==
    /\ pc[s] = at
    /\ pc' = [pc EXCEPT ![s] = "idle"]
    /\ expect' = [expect EXCEPT ![Team(s)] = Promise(s)]
    /\ delMiss' = (delMiss \/ (op[s].kind = "delete" /\ ~(result[s] = "ok" /\ changes[s] > 0)))
    /\ op' = [op EXCEPT ![s] = NoOp]
    /\ result' = [result EXCEPT ![s] = "none"]
    /\ changes' = [changes EXCEPT ![s] = 0]
    /\ attempt' = [attempt EXCEPT ![s] = 0]
    /\ data' = [data EXCEPT ![s] = NoDoc]
    /\ failed' = [failed EXCEPT ![s] = FALSE]
    /\ preTaken' = [preTaken EXCEPT ![s] = FALSE]
    /\ overlapped' = [overlapped EXCEPT ![s] = FALSE]

----------------------------------------------------------------------------
(* File Backend: #atomicWrite, after its synchronous head                  *)
(* (memoryData = JSON.parse(str), done by the caller's action)             *)

\* await fsp.writeFile(tmpPath, str, 'utf8')
AtomicWriteTmp(s) ==
    /\ pc[s] = "writeTmp"
    /\ tmp' = <<data[s]>>
    /\ pc' = [pc EXCEPT ![s] = "rename"]
    /\ UNCHANGED <<op, result, calls, file, lock, memoryData, attempt, data, failed,
                   changes, preTaken, overlapped, expect, delMiss>>
    /\ UNCHANGED mongoVars
    /\ UNCHANGED svcVars
    /\ UNCHANGED runVars

\* await fsp.rename(tmpPath, this.dataFilePath): ENOENT when another writer
\* has already renamed the shared temporary file away.
AtomicWriteRename(s) ==
    /\ pc[s] = "rename"
    /\ IF tmp # NoFile
       THEN /\ file' = tmp[1]
            /\ tmp' = NoFile
            /\ result' = [result EXCEPT ![s] = "ok"]
            /\ failed' = failed
            /\ pc' = [pc EXCEPT ![s] = IF op[s].kind = "create" THEN "unlink1" ELSE "returned"]
       ELSE /\ UNCHANGED <<file, tmp>>
            /\ IF op[s].kind = "create"
               THEN /\ failed' = [failed EXCEPT ![s] = TRUE]
                    /\ result' = result
                    /\ pc' = [pc EXCEPT ![s] = "unlink1"]
               ELSE /\ failed' = failed
                    /\ result' = [result EXCEPT ![s] = "throw"]
                    /\ pc' = [pc EXCEPT ![s] = "returned"]
    /\ UNCHANGED <<op, calls, lock, memoryData, attempt, data, changes,
                   preTaken, overlapped, expect, delMiss>>
    /\ UNCHANGED mongoVars
    /\ UNCHANGED svcVars
    /\ exists' = (exists \/ tmp # NoFile)
    /\ UNCHANGED <<db, log, psColl, psIndex, thisDb, before, extraVars>>

----------------------------------------------------------------------------
(* File Backend: createRegistrationAtomic *)

FileStartCreate(s, teamNumber, id) ==
    /\ BeginCall(s, "create", teamNumber, id, TeamTaken(file.registrations, teamNumber), MaxCalls)
    /\ pc' = [pc EXCEPT ![s] = "acquire"]
    /\ attempt' = [attempt EXCEPT ![s] = 0]
    /\ UNCHANGED <<file, tmp, lock, memoryData, data, failed, changes>>
    /\ UNCHANGED mongoVars
    /\ UNCHANGED svcVars
    /\ UNCHANGED runVars

\* for (let attempt = 0; attempt < maxRetries; attempt++)
LoopContinues_Forever(n) == TRUE

LoopContinues(n) == n < maxRetries

\* await fsp.writeFile(lockFile, pid, { flag: 'wx' }); on EEXIST wait and
\* continue; the loop ends in the failed-to-acquire error.  The call finds
\* the marker present at most `spins` times in one behaviour.
FileAcquireWithin(s, spins) ==
    /\ pc[s] = "acquire"
    /\ IF lock = 0
       THEN /\ lock' = s
            /\ pc' = [pc EXCEPT ![s] = "read"]
            /\ UNCHANGED <<attempt, result>>
       ELSE /\ attempt[s] < spins
            /\ lock' = lock
            /\ attempt' = [attempt EXCEPT ![s] = @ + 1]
            /\ IF LoopContinues(attempt[s] + 1)
               THEN /\ pc' = pc
                    /\ result' = result
               ELSE /\ pc' = [pc EXCEPT ![s] = "returned"]
                    /\ result' = [result EXCEPT ![s] = "throw"]
    /\ UNCHANGED <<op, calls, file, tmp, memoryData, data, failed, changes,
                   preTaken, overlapped, expect, delMiss>>
    /\ UNCHANGED mongoVars
    /\ UNCHANGED svcVars
    /\ UNCHANGED runVars

FileAcquire(s) == FileAcquireWithin(s, MaxSpins)

\* The same call when the holder of the marker is slow.
FileAcquirePatient(s) == FileAcquireWithin(s, MaxLockSpins)

\* const data = await this.#readFromSource()
FileRead(s) ==
    /\ pc[s] = "read"
    /\ data' = [data EXCEPT ![s] = file]
    /\ pc' = [pc EXCEPT ![s] = "check"]
    /\ UNCHANGED <<op, result, calls, file, tmp, lock, memoryData, attempt, failed,
                   changes, preTaken, overlapped, expect, delMiss>>
    /\ UNCHANGED mongoVars
    /\ UNCHANGED svcVars
    /\ UNCHANGED runVars

\* The three checks, the push and the head of #atomicWrite.
FileCheck(s) ==
    /\ pc[s] = "check"
    /\ LET d   == data[s]
           i   == FindPs(d, op[s].problemStatementId)
           bad == \/ TeamTaken(d.registrations, op[s].teamNumber)
                  \/ i = 0
                  \/ IsFull(RegCount(d.registrations, d.problemStatements[i].id),
                            d.problemStatements[i].maxSelections)
           nxt == [d EXCEPT !.registrations =
                      Append(@, Record(op[s].teamNumber, op[s].problemStatementId))]
       IN IF bad
          THEN /\ result' = [result EXCEPT ![s] = "null"]
               /\ pc' = [pc EXCEPT ![s] = "unlink1"]
               /\ UNCHANGED <<data, memoryData>>
          ELSE /\ data' = [data EXCEPT ![s] = nxt]
               /\ memoryData' = [memoryData EXCEPT ![HostOf(s)] = nxt]
               /\ pc' = [pc EXCEPT ![s] = "writeTmp"]
               /\ result' = result
    /\ UNCHANGED <<op, calls, file, tmp, lock, attempt, failed, changes,
                   preTaken, overlapped, expect, delMiss>>
    /\ UNCHANGED mongoVars
    /\ UNCHANGED svcVars
    /\ UNCHANGED runVars

\* await fsp.unlink(lockFile): whoever created the marker, it is gone (an
\* absent marker raises ENOENT, which the callers ignore).
Unlink_Kept(marker) == marker

Unlink(marker) == 0

\* finally { await fsp.unlink(lockFile) }
FileUnlinkFinally(s) ==
    /\ pc[s] = "unlink1"
    /\ lock' = Unlink(lock)
    /\ pc' = [pc EXCEPT ![s] = IF failed[s] THEN "unlink2" ELSE "returned"]
    /\ UNCHANGED <<op, result, calls, file, tmp, memoryData, attempt, data, failed,
                   changes, preTaken, overlapped, expect, delMiss>>
    /\ UNCHANGED mongoVars
    /\ UNCHANGED svcVars
    /\ UNCHANGED runVars

\* catch (error) { await fsp.unlink(lockFile); rethrow on the last attempt,
\* else wait and loop }
FileUnlinkCatch(s) ==
    /\ pc[s] = "unlink2"
    /\ lock' = Unlink(lock)
    /\ failed' = [failed EXCEPT ![s] = FALSE]
    /\ IF attempt[s] = maxRetries - 1
       THEN /\ result' = [result EXCEPT ![s] = "throw"]
            /\ pc' = [pc EXCEPT ![s] = "returned"]
            /\ attempt' = attempt
       ELSE /\ result' = result
            /\ attempt' = [attempt EXCEPT ![s] = @ + 1]
            /\ pc' = [pc EXCEPT ![s] = "acquire"]
    /\ UNCHANGED <<op, calls, file, tmp, memoryData, data, changes,
                   preTaken, overlapped, expect, delMiss>>
    /\ UNCHANGED mongoVars
    /\ UNCHANGED svcVars
    /\ UNCHANGED runVars

----------------------------------------------------------------------------
(* File Backend: deleteRegistration *)

FileStartDelete(s, teamNumber) ==
    /\ BeginCall(s, "delete", teamNumber, "", TeamTaken(file.registrations, teamNumber), MaxCalls)
    /\ pc' = [pc EXCEPT ![s] = "dprep"]
    /\ UNCHANGED <<file, tmp, lock, memoryData, attempt, data, failed, changes>>
    /\ UNCHANGED mongoVars
    /\ UNCHANGED svcVars
    /\ UNCHANGED runVars

\* const data = await this.#read(); the filter; the head of #atomicWrite.
FileDeletePrepare(s) ==
    /\ pc[s] = "dprep"
    /\ LET d   == memoryData[HostOf(s)]
           nxt == [d EXCEPT !.registrations = WithoutTeam(@, op[s].teamNumber)]
       IN /\ data' = [data EXCEPT ![s] = nxt]
          /\ memoryData' = [memoryData EXCEPT ![HostOf(s)] = nxt]
          /\ changes' = [changes EXCEPT ![s] = Len(d.registrations) - Len(nxt.registrations)]
    /\ pc' = [pc EXCEPT ![s] = "writeTmp"]
    /\ UNCHANGED <<op, result, calls, file, tmp, lock, attempt, failed,
                   preTaken, overlapped, expect, delMiss>>
    /\ UNCHANGED mongoVars
    /\ UNCHANGED svcVars
    /\ UNCHANGED runVars

FileReturn(s) ==
    /\ EndCall(s, "returned")
    /\ UNCHANGED <<calls, file, tmp, lock, memoryData>>
    /\ UNCHANGED mongoVars
    /\ UNCHANGED svcVars
    /\ UNCHANGED runVars

----------------------------------------------------------------------------
(* File Backend: specification *)

NextFile ==
    \E s \in Slots :
        \/ \E r \in RegisterInputs(s) : s \in Registrars /\ FileStartCreate(s, r[1], r[2])
        \/ \E t \in DeleteInputs : s \in Deleters /\ FileStartDelete(s, t)
        \/ FileAcquire(s)
        \/ FileRead(s)
        \/ FileCheck(s)
        \/ AtomicWriteTmp(s)
        \/ AtomicWriteRename(s)
        \/ FileUnlinkFinally(s)
        \/ FileUnlinkCatch(s)
        \/ FileDeletePrepare(s)
        \/ FileReturn(s)

SpecFile == Init /\ [][NextFile]_vars

----------------------------------------------------------------------------
(* File Backend: claims *)

Persisted == file.registrations

CreateReturned(s, r) == pc[s] = "returned" /\ op[s].kind = "create" /\ result[s] = r

\* C1: in every reachable state of the File Backend, every statement of the
\* persisted document is referenced by at most maxSelections registrations
\* of that document.
C1_FileCapacity ==
    \A i \in 1..Len(file.problemStatements) :
        RegCount(Persisted, file.problemStatements[i].id)
            <= file.problemStatements[i].maxSelections

\* A register for a team that is not registered has returned null while its
\* statement holds maxSelections registrations.
C1_Witness ==
    \E s \in Registrars :
        /\ CreateReturned(s, "null")
        /\ ~TeamTaken(Persisted, op[s].teamNumber)
        /\ FindPs(file, op[s].problemStatementId) # 0
        /\ RegCount(Persisted, op[s].problemStatementId) = SeedMaxSelections

\* C3: in every reachable state of the File Backend the persisted document
\* holds at most one registration per trimmed teamNumber.
C3_FileUniqueTeam ==
    \A i, j \in 1..Len(Persisted) :
        i # j => Trim(Persisted[i].teamNumber) # Trim(Persisted[j].teamNumber)

\* Two registers for one team, written with and without surrounding blanks
\* and aimed at different statements, ran side by side; the second returned
\* null and the team is registered.
C3_Witness ==
    \E s \in Registrars :
        /\ CreateReturned(s, "null")
        /\ overlapped[s]
        /\ op[s].teamNumber # Team(s)
        /\ \E i \in 1..Len(Persisted) :
              /\ Persisted[i].teamNumber = Team(s)
              /\ Persisted[i].problemStatementId # op[s].problemStatementId

\* C5: a createRegistrationAtomic call that does not report success (null or
\* a throw) leaves the persisted document without a registration written by
\* it: when no other call for its team ran beside it, the team is registered
\* at its return exactly when it was registered at its start.
C5_FileFailedCreateNoChange ==
    \A s \in Registrars :
        /\ pc[s] = "returned"
        /\ op[s].kind = "create"
        /\ result[s] \in {"null", "throw"}
        /\ ~overlapped[s]
        => (TeamTaken(Persisted, op[s].teamNumber) <=> preTaken[s])

\* C8: when every deleteRegistration so far was of an existing team and
\* reported its row removed, then once every call has finished a team whose
\* delete removed a row is absent
\* and a team whose createRegistrationAtomic reported success is present
\* (calls for the same team that ran side by side promise nothing), so each
\* delete lowered the derived count by exactly 1.
C8_DeleteReconciliation ==
    Quiescent /\ ~delMiss =>
        \A k \in TeamKeys :
            /\ expect[k] = "present" => TeamTaken(Persisted, k)
            /\ expect[k] = "absent" => ~TeamTaken(Persisted, k)

\* C11: whenever a createRegistrationAtomic call returns or throws, the lock
\* marker it created is not in place: after a success, after each null
\* result and after the exception path.
C11_FileLockReleased ==
    \A s \in Registrars :
        pc[s] = "returned" /\ op[s].kind = "create" => lock # s

\* A call whose write failed went through the exception path, retried,
\* acquired the lock again and returned null for a duplicate team, its own
\* record; no marker is left.
C11_Witness ==
    \E s \in Registrars :
        /\ CreateReturned(s, "null")
        /\ ~overlapped[s]
        /\ ~preTaken[s]
        /\ TeamTaken(Persisted, op[s].teamNumber)
        /\ attempt[s] > 0
        /\ lock = 0

\* File Backend, registers only, with a holder that may keep the marker
\* through every attempt of another caller.
NextLock ==
    \E s \in Registrars :
        \/ \E r \in RegisterInputs(s) : FileStartCreate(s, r[1], r[2])
        \/ FileAcquirePatient(s)
        \/ FileRead(s)
        \/ FileCheck(s)
        \/ AtomicWriteTmp(s)
        \/ AtomicWriteRename(s)
        \/ FileUnlinkFinally(s)
        \/ FileReturn(s)

SpecLock == Init /\ [][NextLock]_vars

\* C12: a createRegistrationAtomic call makes at most maxRetries attempts;
\* when it leaves the acquisition loop without the lock it throws after
\* exactly maxRetries attempts, and that step leaves the holder's marker,
\* the document, the temporary file and the cache as they were.
C12_LockExhaustion ==
    /\ [](\A s \in Registrars : attempt[s] <= maxRetries)
    /\ [][\A s \in Registrars :
            pc[s] = "acquire" /\ pc'[s] = "returned"
                => /\ result'[s] = "throw"
                   /\ attempt'[s] = maxRetries
                   /\ lock # 0 /\ lock # s /\ lock' = lock
                   /\ file' = file /\ tmp' = tmp /\ memoryData' = memoryData]_vars

\* A call has thrown after maxRetries attempts; the holder's marker is in
\* place and the caller's team is not registered.
C12_Witness ==
    \E s \in Registrars :
        /\ CreateReturned(s, "throw")
        /\ attempt[s] = maxRetries
        /\ lock # 0 /\ lock # s
        /\ ~TeamTaken(Persisted, op[s].teamNumber)

\* Between the re-read of the document and the end of the write.
InCriticalSection(s) ==
    op[s].kind = "create" /\ pc[s] \in {"check", "writeTmp", "rename"}

\* C10: at any time at most one createRegistrationAtomic caller is between
\* its re-read of the document and the end of its write.
C10_FileMutualExclusion ==
    Cardinality({s \in Slots : InCriticalSection(s)}) <= 1

----------------------------------------------------------------------------
(* Transactional Backend: documents and the transaction's view *)

\* regs.findOne({ teamNumber: target })
HasTeam(docs, target) == \E i \in 1..Len(docs) : docs[i].teamNumber = target

\* Index of the first document of the team, or 0.
FirstOf(docs, target) ==
    IF HasTeam(docs, target)
    THEN CHOOSE i \in 1..Len(docs) :
            /\ docs[i].teamNumber = target
            /\ \A j \in 1..(i - 1) : docs[j].teamNumber # target
    ELSE 0

\* regs.deleteOne({ teamNumber: target })
DeleteOne(docs, target) ==
    LET i == FirstOf(docs, target)
    IN IF i = 0 THEN docs ELSE SubSeq(docs, 1, i - 1) \o SubSeq(docs, i + 1, Len(docs))

\* Math.max(1, problem.maxSelections) of the catalog document.
MaxSel(id) ==
    LET m == psColl[FindPs([problemStatements |-> psColl], id)].maxSelections
    IN IF m < 1 THEN 1 ELSE m

\* $lt: [ { $ifNull: ["$selectedCount", 0] }, maxSel ]
CanReserve_Inclusive(selected, maxSel) == selected <= maxSel

CanReserve(selected, maxSel) == selected < maxSel

\* The unique index on registrations.teamNumber: an insert of key k clashes
\* with the keys of the index that the transaction cannot take.
IndexClash_NoIndex(keys, k) == FALSE

IndexClash(keys, k) == regsIndex /\ k \in keys

\* Slot s is inside the callback of session.withTransaction, after its
\* snapshot was opened.
InTxn(s) ==
    op[s].kind = "create" /\ pc[s] \in {"reconcile", "reserve", "insert", "compensate", "commit"}

\* The transaction of s holds an uncommitted write of statement id.
Holds(s, id) == InTxn(s) /\ wsel[s] # <<>> /\ op[s].problemStatementId = id

\* The transaction of s holds an uncommitted insert.
PendingInsert(s) == InTxn(s) /\ pc[s] = "commit" /\ result[s] = "ok"

\* A write of statement id by s conflicts: the document was committed by
\* another writer after the snapshot, or another transaction holds it.
WriteConflict(s, id) ==
    \/ id \in touched[s].ps
    \/ \E t \in Slots \ {s} : Holds(t, id)

\* Keys that s commits become visible to every other open transaction as
\* writes newer than its snapshot.
Touch(s, psKeys, teamKeys) ==
    [t \in Slots |->
        IF t = s THEN NoTouch
        ELSE IF InTxn(t)
             THEN [ps |-> touched[t].ps \cup psKeys, team |-> touched[t].team \cup teamKeys]
             ELSE touched[t]]

\* The view of selectedCount inside the transaction of s.
TxnSelected_Cached(s) == cur[s]

TxnSelected(s) == IF wsel[s] # <<>> THEN wsel[s][1] ELSE cur[s]

----------------------------------------------------------------------------
(* Transactional Backend: createRegistrationAtomic *)

MongoStartCreate(s, teamNumber, id) ==
    /\ BeginCall(s, "create", teamNumber, id, HasTeam(regs, Trim(teamNumber)), MaxMongoCalls)
    /\ pc' = [pc EXCEPT ![s] = "mread"]
    /\ alone' = [t \in Slots |-> t = s /\ Quiescent]
    /\ preRegs' = [preRegs EXCEPT ![s] = regs]
    /\ preSel' = [preSel EXCEPT ![s] = sel]
    /\ UNCHANGED <<changes, regs, sel, cur, act, wsel, touched, dreg>>
    /\ UNCHANGED fileVars
    /\ UNCHANGED svcVars
    /\ UNCHANGED runVars

\* The transaction is aborted on a WriteConflict and withTransaction runs
\* the callback again, on a new snapshot.
TxnRetry(s) ==
    /\ pc' = [pc EXCEPT ![s] = "mread"]
    /\ wsel' = [wsel EXCEPT ![s] = <<>>]
    /\ touched' = [touched EXCEPT ![s] = NoTouch]
    /\ UNCHANGED <<result, regs, sel, cur, act>>

\* The reads of the callback: exists, problem and actualCount.  They are
\* answered from the snapshot the first read opens.
TxnRead(s) ==
    /\ pc[s] = "mread"
    /\ LET id == op[s].problemStatementId
       IN IF HasTeam(regs, Team(s)) \/ id \notin PsIds
          THEN /\ result' = [result EXCEPT ![s] = "null"]
               /\ pc' = [pc EXCEPT ![s] = "returned"]
               /\ UNCHANGED <<cur, act>>
          ELSE /\ cur' = [cur EXCEPT ![s] = sel[id]]
               /\ act' = [act EXCEPT ![s] = RegCount(regs, id)]
               /\ pc' = [pc EXCEPT ![s] =
                            IF sel[id] # RegCount(regs, id) THEN "reconcile" ELSE "reserve"]
               /\ result' = result
    /\ wsel' = [wsel EXCEPT ![s] = <<>>]
    /\ touched' = [touched EXCEPT ![s] = NoTouch]
    /\ UNCHANGED <<op, calls, changes, preTaken, overlapped, expect, delMiss,
                   regs, sel, dreg, alone, preRegs, preSel>>
    /\ UNCHANGED fileVars
    /\ UNCHANGED svcVars
    /\ UNCHANGED runVars

\* ps.updateOne({ id }, { $set: { selectedCount: actualCount } }, { session })
TxnReconcile(s) ==
    /\ pc[s] = "reconcile"
    /\ IF WriteConflict(s, op[s].problemStatementId)
       THEN TxnRetry(s)
       ELSE /\ wsel' = [wsel EXCEPT ![s] = <<act[s]>>]
            /\ pc' = [pc EXCEPT ![s] = "reserve"]
            /\ UNCHANGED <<result, regs, sel, cur, act, touched>>
    /\ UNCHANGED <<op, calls, changes, preTaken, overlapped, expect, delMiss,
                   dreg, alone, preRegs, preSel>>
    /\ UNCHANGED fileVars
    /\ UNCHANGED svcVars
    /\ UNCHANGED runVars

\* The conditional increment; with modifiedCount 0 the callback returns and
\* withTransaction commits.
TxnReserve(s) ==
    /\ pc[s] = "reserve"
    /\ LET id == op[s].problemStatementId
       IN IF ~CanReserve(TxnSelected(s), MaxSel(id))
          THEN /\ result' = [result EXCEPT ![s] = "null"]
               /\ pc' = [pc EXCEPT ![s] = "commit"]
               /\ UNCHANGED <<regs, sel, cur, act, wsel, touched>>
          ELSE IF WriteConflict(s, id)
          THEN TxnRetry(s)
          ELSE /\ wsel' = [wsel EXCEPT ![s] = <<TxnSelected(s) + 1>>]
               /\ pc' = [pc EXCEPT ![s] = "insert"]
               /\ UNCHANGED <<result, regs, sel, cur, act, touched>>
    /\ UNCHANGED <<op, calls, changes, preTaken, overlapped, expect, delMiss,
                   dreg, alone, preRegs, preSel>>
    /\ UNCHANGED fileVars
    /\ UNCHANGED svcVars
    /\ UNCHANGED runVars

\* Team keys the unique index will not let the transaction of s insert:
\* committed documents, keys committed or removed after the snapshot, and
\* uncommitted inserts of other transactions.
IndexKeys(s) ==
    { regs[i].teamNumber : i \in 1..Len(regs) }
        \cup touched[s].team
        \cup { Team(t) : t \in { u \in Slots \ {s} : PendingInsert(u) } }

\* regs.insertOne(record, { session }): on a clash either a WriteConflict
\* (retry) or, when a committed document holds the key, E11000.
TxnInsert(s) ==
    /\ pc[s] = "insert"
    /\ IF IndexClash(IndexKeys(s), Team(s))
       THEN \/ TxnRetry(s)
            \/ /\ HasTeam(regs, Team(s))
               /\ pc' = [pc EXCEPT ![s] = "compensate"]
               /\ UNCHANGED <<result, regs, sel, cur, act, wsel, touched>>
       ELSE /\ result' = [result EXCEPT ![s] = "ok"]
            /\ pc' = [pc EXCEPT ![s] = "commit"]
            /\ UNCHANGED <<regs, sel, cur, act, wsel, touched>>
    /\ UNCHANGED <<op, calls, changes, preTaken, overlapped, expect, delMiss,
                   dreg, alone, preRegs, preSel>>
    /\ UNCHANGED fileVars
    /\ UNCHANGED svcVars
    /\ UNCHANGED runVars

\* catch (e) { $inc -1 in the session; throw e }: the transaction is
\* aborted, error 11000 is turned into null.
TxnCompensate(s) ==
    /\ pc[s] = "compensate"
    /\ wsel' = [wsel EXCEPT ![s] = <<>>]
    /\ touched' = [touched EXCEPT ![s] = NoTouch]
    /\ result' = [result EXCEPT ![s] = "null"]
    /\ pc' = [pc EXCEPT ![s] = "returned"]
    /\ UNCHANGED <<op, calls, changes, preTaken, overlapped, expect, delMiss,
                   regs, sel, cur, act, dreg, alone, preRegs, preSel>>
    /\ UNCHANGED fileVars
    /\ UNCHANGED svcVars
    /\ UNCHANGED runVars

\* commitTransaction: the uncommitted writes become the committed state.
TxnCommit(s) ==
    /\ pc[s] = "commit"
    /\ LET id == op[s].problemStatementId
           wrote == wsel[s] # <<>>
           inserted == result[s] = "ok"
       IN /\ sel' = IF wrote THEN [sel EXCEPT ![id] = wsel[s][1]] ELSE sel
          /\ regs' = IF inserted THEN Append(regs, Record(op[s].teamNumber, id)) ELSE regs
          /\ touched' = Touch(s, IF wrote THEN {id} ELSE {}, IF inserted THEN {Team(s)} ELSE {})
    /\ wsel' = [wsel EXCEPT ![s] = <<>>]
    /\ pc' = [pc EXCEPT ![s] = "returned"]
    /\ UNCHANGED <<op, result, calls, changes, preTaken, overlapped, expect, delMiss,
                   cur, act, dreg, alone, preRegs, preSel>>
    /\ UNCHANGED fileVars
    /\ UNCHANGED svcVars
    /\ UNCHANGED runVars

----------------------------------------------------------------------------
(* Transactional Backend: deleteRegistration (no transaction) *)

MongoStartDelete(s, teamNumber) ==
    /\ BeginCall(s, "delete", teamNumber, "", HasTeam(regs, Trim(teamNumber)), MaxMongoCalls)
    /\ pc' = [pc EXCEPT ![s] = "dfind"]
    /\ alone' = [t \in Slots |-> t = s /\ Quiescent]
    /\ preRegs' = [preRegs EXCEPT ![s] = regs]
    /\ preSel' = [preSel EXCEPT ![s] = sel]
    /\ UNCHANGED <<changes, regs, sel, cur, act, wsel, touched, dreg>>
    /\ UNCHANGED fileVars
    /\ UNCHANGED svcVars
    /\ UNCHANGED runVars

\* const reg = await regs.findOne({ teamNumber: target })
MongoDeleteFind(s) ==
    /\ pc[s] = "dfind"
    /\ dreg' = [dreg EXCEPT ![s] =
                   IF HasTeam(regs, Team(s))
                   THEN regs[FirstOf(regs, Team(s))].problemStatementId ELSE ""]
    /\ pc' = [pc EXCEPT ![s] = "dOne"]
    /\ UNCHANGED <<op, result, calls, changes, preTaken, overlapped, expect, delMiss,
                   regs, sel, cur, act, wsel, touched, alone, preRegs, preSel>>
    /\ UNCHANGED fileVars
    /\ UNCHANGED svcVars
    /\ UNCHANGED runVars

\* const res = await regs.deleteOne({ teamNumber: target })
MongoDeleteOne(s) ==
    /\ pc[s] = "dOne"
    /\ LET deleted == HasTeam(regs, Team(s))
       IN /\ regs' = DeleteOne(regs, Team(s))
          /\ changes' = [changes EXCEPT ![s] = IF deleted THEN 1 ELSE 0]
          /\ touched' = IF deleted THEN Touch(s, {}, {Team(s)}) ELSE touched
          /\ pc' = [pc EXCEPT ![s] = IF deleted /\ dreg[s] # "" THEN "ddec" ELSE "returned"]
    /\ result' = [result EXCEPT ![s] = "ok"]
    /\ UNCHANGED <<op, calls, preTaken, overlapped, expect, delMiss,
                   sel, cur, act, wsel, dreg, alone, preRegs, preSel>>
    /\ UNCHANGED fileVars
    /\ UNCHANGED svcVars
    /\ UNCHANGED runVars

\* await ps.updateOne({ id }, { $inc: { selectedCount: -1 } }): it waits
\* while a transaction holds an uncommitted write of the document.
MongoDeleteDec(s) ==
    /\ pc[s] = "ddec"
    /\ ~\E t \in Slots \ {s} : Holds(t, dreg[s])
    /\ sel' = [sel EXCEPT ![dreg[s]] = @ - 1]
    /\ touched' = Touch(s, {dreg[s]}, {})
    /\ pc' = [pc EXCEPT ![s] = "returned"]
    /\ UNCHANGED <<op, result, calls, changes, preTaken, overlapped, expect, delMiss,
                   regs, cur, act, wsel, dreg, alone, preRegs, preSel>>
    /\ UNCHANGED fileVars
    /\ UNCHANGED svcVars
    /\ UNCHANGED runVars

MongoReturn(s) ==
    /\ EndCall(s, "returned")
    /\ cur' = [cur EXCEPT ![s] = 0]
    /\ act' = [act EXCEPT ![s] = 0]
    /\ dreg' = [dreg EXCEPT ![s] = ""]
    /\ alone' = [alone EXCEPT ![s] = FALSE]
    /\ preRegs' = [preRegs EXCEPT ![s] = <<>>]
    /\ preSel' = [preSel EXCEPT ![s] = [id \in PsIds |-> 0]]
    /\ UNCHANGED <<calls, regs, sel, wsel, touched, file, tmp, lock, memoryData>>
    /\ UNCHANGED svcVars
    /\ UNCHANGED runVars

----------------------------------------------------------------------------
(* Transactional Backend: specification *)

NextMongo ==
    \E s \in Slots :
        \/ \E r \in MongoRegisterInputs(s) : s \in Registrars /\ MongoStartCreate(s, r[1], r[2])
        \/ \E t \in MongoDeleteInputs : s \in Deleters /\ MongoStartDelete(s, t)
        \/ TxnRead(s)
        \/ TxnReconcile(s)
        \/ TxnReserve(s)
        \/ TxnInsert(s)
        \/ TxnCompensate(s)
        \/ TxnCommit(s)
        \/ MongoDeleteFind(s)
        \/ MongoDeleteOne(s)
        \/ MongoDeleteDec(s)
        \/ MongoReturn(s)

SpecMongo == Init /\ [][NextMongo]_vars

----------------------------------------------------------------------------
(* Transactional Backend: claims *)

\* C2: in every reachable state of the Transactional Backend every
\* statement is referenced by at most maxSelections registration documents.
C2_MongoCapacity ==
    \A id \in PsIds : RegCount(regs, id) <= MaxSel(id)

\* A register that ran beside other calls, for a team that is not
\* registered, has returned null while its statement holds maxSelections
\* registration documents.
C2_Witness ==
    \E s \in Registrars :
        /\ CreateReturned(s, "null")
        /\ ~alone[s]
        /\ ~HasTeam(regs, Team(s))
        /\ op[s].problemStatementId \in PsIds
        /\ RegCount(regs, op[s].problemStatementId) = MaxSel(op[s].problemStatementId)

\* C4: with the unique index in place, in every reachable state of the
\* Transactional Backend at most one registration document exists per
\* trimmed teamNumber.
C4_MongoUniqueTeam ==
    \A i, j \in 1..Len(regs) :
        i # j => Trim(regs[i].teamNumber) # Trim(regs[j].teamNumber)

\* A transaction that saw its team unregistered and reserved a slot had its
\* insert rejected by the unique index, because a transaction for the same
\* team, written with other blanks and aimed at another statement,
\* committed first.
C4_Witness ==
    \E s \in Registrars :
        /\ pc[s] = "compensate"
        /\ wsel[s] # <<>>
        /\ op[s].teamNumber # Team(s)
        /\ \E i \in 1..Len(regs) :
              /\ regs[i].teamNumber = Team(s)
              /\ regs[i].problemStatementId # op[s].problemStatementId

\* C6: a createRegistrationAtomic call of the Transactional Backend that
\* returns null or throws, and beside which no other call ran, leaves the
\* registrations collection and every stored selectedCount as they were
\* when it began.
C6_MongoFailedCreateNoChange ==
    \A s \in Registrars :
        /\ pc[s] = "returned"
        /\ op[s].kind = "create"
        /\ result[s] \in {"null", "throw"}
        /\ alone[s]
        => (regs = preRegs[s] /\ sel = preSel[s])

\* C9: whenever no call is in flight, every statement's stored selectedCount
\* equals the number of registration documents that reference it.
C9_SelectedCountMatches ==
    Quiescent => \A id \in PsIds : sel[id] = RegCount(regs, id)


----------------------------------------------------------------------------
(* Registration Service: POST /api/register, on the File Backend *)

\* One row of formatProblems(await db.getAllProblemStatements()).
ViewOf(doc, id) ==
    LET p        == doc.problemStatements[FindPs(doc, id)]
        maxSel   == IF p.maxSelections < 1 THEN 1 ELSE p.maxSelections
        selected == RegCount(doc.registrations, id)
    IN [selectedCount |-> selected, maxSelections |-> maxSel, isAvailable |-> selected < maxSel]

Respond(s, answer) ==
    /\ response' = [response EXCEPT ![s] = answer]
    /\ pc' = [pc EXCEPT ![s] = "responded"]

\* The handler up to the first await: the required fields.
SvcStart(s, teamNumber, id) ==
    /\ BeginCall(s, "create", teamNumber, id, TeamTaken(file.registrations, teamNumber), MaxCalls)
    /\ IF teamNumber = <<>> \/ id = ""
       THEN Respond(s, "400 missing fields")
       ELSE /\ pc' = [pc EXCEPT ![s] = "isTaken"]
            /\ response' = [response EXCEPT ![s] = "none"]
    /\ UNCHANGED <<changes, view>>
    /\ UNCHANGED fileVars
    /\ UNCHANGED mongoVars
    /\ UNCHANGED runVars

\* const isTaken = await db.isTeamNumberTaken(teamNumber)
SvcIsTaken(s) ==
    /\ pc[s] = "isTaken"
    /\ IF TeamTaken(memoryData[HostOf(s)].registrations, op[s].teamNumber)
       THEN Respond(s, "409 team registered")
       ELSE /\ pc' = [pc EXCEPT ![s] = "getPs"]
            /\ response' = response
    /\ UNCHANGED <<op, result, calls, changes, preTaken, overlapped, expect, delMiss, view>>
    /\ UNCHANGED fileVars
    /\ UNCHANGED mongoVars
    /\ UNCHANGED runVars

\* const ps = await db.getProblemStatementById(problemStatementId)
SvcGetPs(s) ==
    /\ pc[s] = "getPs"
    /\ IF FindPs(memoryData[HostOf(s)], op[s].problemStatementId) = 0
       THEN Respond(s, "404 not found")
       ELSE /\ pc' = [pc EXCEPT ![s] = "view"]
            /\ response' = response
    /\ UNCHANGED <<op, result, calls, changes, preTaken, overlapped, expect, delMiss, view>>
    /\ UNCHANGED fileVars
    /\ UNCHANGED mongoVars
    /\ UNCHANGED runVars

\* const allProblems = formatProblems(await db.getAllProblemStatements());
\* targetProblem; then createRegistrationAtomic is called.
SvcLoadView(s) ==
    /\ pc[s] = "view"
    /\ view' = [view EXCEPT ![s] =
                   IF FindPs(memoryData[HostOf(s)], op[s].problemStatementId) = 0 THEN NoView
                   ELSE ViewOf(memoryData[HostOf(s)], op[s].problemStatementId)]
    /\ pc' = [pc EXCEPT ![s] = "acquire"]
    /\ UNCHANGED <<op, result, calls, changes, preTaken, overlapped, expect, delMiss, response>>
    /\ UNCHANGED fileVars
    /\ UNCHANGED mongoVars
    /\ UNCHANGED runVars

\* The answer of POST /api/register after createRegistrationAtomic, and of
\* DELETE /api/registration/:teamNumber after deleteRegistration.
Answer(s) ==
    IF op[s].kind = "delete"
    THEN IF result[s] = "throw" THEN "500 failed"
         ELSE IF changes[s] = 0 THEN "404 no registration"
         ELSE "200 deleted"
    ELSE IF result[s] = "ok" THEN "200 success"
         ELSE IF result[s] = "throw" THEN "500 failed"
         ELSE IF ~view[s].isAvailable THEN "409 full"
         ELSE "409 failed"

\* The answer after the backend call has returned or thrown.
SvcRespond(s) ==
    /\ pc[s] = "returned"
    /\ Respond(s, Answer(s))
    /\ UNCHANGED <<op, result, calls, changes, preTaken, overlapped, expect, delMiss, view>>
    /\ UNCHANGED fileVars
    /\ UNCHANGED mongoVars
    /\ UNCHANGED runVars

SvcEnd(s) ==
    /\ EndCall(s, "responded")
    /\ view' = [view EXCEPT ![s] = NoView]
    /\ response' = [response EXCEPT ![s] = "none"]
    /\ UNCHANGED <<calls, file, tmp, lock, memoryData>>
    /\ UNCHANGED mongoVars
    /\ UNCHANGED runVars

NextSvc ==
    \E s \in SvcSlots :
        \/ \E r \in SvcInputs(s) : SvcStart(s, r[1], r[2])
        \/ SvcIsTaken(s)
        \/ SvcGetPs(s)
        \/ SvcLoadView(s)
        \/ FileAcquire(s)
        \/ FileRead(s)
        \/ FileCheck(s)
        \/ AtomicWriteTmp(s)
        \/ AtomicWriteRename(s)
        \/ FileUnlinkFinally(s)
        \/ SvcRespond(s)
        \/ SvcEnd(s)

SpecSvc == Init /\ [][NextSvc]_vars

----------------------------------------------------------------------------
(* Registration Service: claims *)

\* The atomic operation of request s ran for an unregistered team while the
\* target statement held maxSelections registrations, and returned null.
RanWhileFull(s) ==
    /\ result[s] = "null"
    /\ ~TeamTaken(data[s].registrations, op[s].teamNumber)
    /\ FindPs(data[s], op[s].problemStatementId) # 0
    /\ IsFull(RegCount(data[s].registrations, op[s].problemStatementId),
              data[s].problemStatements[FindPs(data[s], op[s].problemStatementId)].maxSelections)

\* C7: a register request by an unregistered team whose atomic operation
\* ran while the target statement held maxSelections registrations is
\* answered with the statement-full outcome and creates no registration.
C7_ServiceFullAnswer ==
    \A s \in SvcSlots :
        pc[s] = "responded" /\ RanWhileFull(s)
            => (response[s] = "409 full" /\ ~TeamTaken(file.registrations, op[s].teamNumber))

----------------------------------------------------------------------------
(* Registration Service on the Transactional Backend *)

\* const isTaken = await db.isTeamNumberTaken(teamNumber)
SvcIsTakenMongo(s) ==
    /\ pc[s] = "isTaken"
    /\ IF HasTeam(regs, Team(s))
       THEN Respond(s, "409 team registered")
       ELSE /\ pc' = [pc EXCEPT ![s] = "getPs"]
            /\ response' = response
    /\ UNCHANGED <<op, result, calls, changes, preTaken, overlapped, expect, delMiss, view>>
    /\ UNCHANGED fileVars
    /\ UNCHANGED mongoVars
    /\ UNCHANGED runVars

\* const ps = await db.getProblemStatementById(problemStatementId)
SvcGetPsMongo(s) ==
    /\ pc[s] = "getPs"
    /\ IF op[s].problemStatementId \notin PsIds
       THEN Respond(s, "404 not found")
       ELSE /\ pc' = [pc EXCEPT ![s] = "view"]
            /\ response' = response
    /\ UNCHANGED <<op, result, calls, changes, preTaken, overlapped, expect, delMiss, view>>
    /\ UNCHANGED fileVars
    /\ UNCHANGED mongoVars
    /\ UNCHANGED runVars

\* One row of formatProblems(await db.getAllProblemStatements()), from the
\* registrations collection.
ViewOfMongo(docs, id) ==
    [selectedCount |-> RegCount(docs, id), maxSelections |-> MaxSel(id),
     isAvailable |-> RegCount(docs, id) < MaxSel(id)]

\* The availability view; then createRegistrationAtomic is called.
SvcLoadViewMongo(s) ==
    /\ pc[s] = "view"
    /\ view' = [view EXCEPT ![s] = ViewOfMongo(regs, op[s].problemStatementId)]
    /\ pc' = [pc EXCEPT ![s] = "mread"]
    /\ UNCHANGED <<op, result, calls, changes, preTaken, overlapped, expect, delMiss, response>>
    /\ UNCHANGED fileVars
    /\ UNCHANGED mongoVars
    /\ UNCHANGED runVars

----------------------------------------------------------------------------
(* One server, one client that sends its requests one after the other *)

SeqSlots == {1}

\* app.js selects the backend from the environment when it is loaded.
InitSeq ==
    /\ InitCalls /\ InitFile /\ InitMongo /\ InitSvc
    /\ db \in {"json", "mongo"}
    /\ log = <<>>
    /\ InitStore

\* POST /api/register up to the first await.
HandleRegister(s, teamNumber, id, limit) ==
    /\ BeginCall(s, "create", teamNumber, id,
                 IF db = "json" THEN TeamTaken(file.registrations, teamNumber)
                 ELSE HasTeam(regs, Trim(teamNumber)),
                 limit)
    /\ IF teamNumber = <<>> \/ id = ""
       THEN Respond(s, "400 missing fields")
       ELSE /\ pc' = [pc EXCEPT ![s] = "isTaken"]
            /\ response' = [response EXCEPT ![s] = "none"]
    /\ UNCHANGED <<changes, view>>
    /\ UNCHANGED fileVars
    /\ UNCHANGED mongoVars
    /\ UNCHANGED runVars

SeqRegister(s, teamNumber, id) == HandleRegister(s, teamNumber, id, MaxSeqCalls)

\* DELETE /api/registration/:teamNumber up to db.deleteRegistration.
SeqDelete(s, teamNumber) ==
    /\ BeginCall(s, "delete", teamNumber, "",
                 IF db = "json" THEN TeamTaken(file.registrations, teamNumber)
                 ELSE HasTeam(regs, Trim(teamNumber)),
                 MaxSeqCalls)
    /\ pc' = [pc EXCEPT ![s] = IF db = "json" THEN "dprep" ELSE "dfind"]
    /\ UNCHANGED changes
    /\ UNCHANGED fileVars
    /\ UNCHANGED mongoVars
    /\ UNCHANGED svcVars
    /\ UNCHANGED runVars

\* The answer is sent; the client notes it.
SeqEnd(s) ==
    /\ EndCall(s, "responded")
    /\ log' = Append(log, [kind |-> op[s].kind, team |-> Team(s),
                           id |-> op[s].problemStatementId,
                           outcome |-> response[s], changes |-> changes[s]])
    /\ view' = [view EXCEPT ![s] = NoView]
    /\ response' = [response EXCEPT ![s] = "none"]
    /\ cur' = [cur EXCEPT ![s] = 0]
    /\ act' = [act EXCEPT ![s] = 0]
    /\ dreg' = [dreg EXCEPT ![s] = ""]
    /\ UNCHANGED <<calls, file, tmp, lock, memoryData, db,
                   regs, sel, wsel, touched, alone, preRegs, preSel>>
    /\ UNCHANGED <<exists, psColl, psIndex, thisDb, before, extraVars>>

NextSeq ==
    \E s \in SeqSlots :
        \/ \E r \in SeqRegisterInputs : SeqRegister(s, r[1], r[2])
        \/ \E t \in SeqDeleteInputs : SeqDelete(s, t)
        \/ db = "json" /\ SvcIsTaken(s)
        \/ db = "json" /\ SvcGetPs(s)
        \/ db = "json" /\ SvcLoadView(s)
        \/ db = "mongo" /\ SvcIsTakenMongo(s)
        \/ db = "mongo" /\ SvcGetPsMongo(s)
        \/ db = "mongo" /\ SvcLoadViewMongo(s)
        \/ FileAcquire(s)
        \/ FileRead(s)
        \/ FileCheck(s)
        \/ AtomicWriteTmp(s)
        \/ AtomicWriteRename(s)
        \/ FileUnlinkFinally(s)
        \/ FileDeletePrepare(s)
        \/ TxnRead(s)
        \/ TxnReserve(s)
        \/ TxnInsert(s)
        \/ TxnCommit(s)
        \/ MongoDeleteFind(s)
        \/ MongoDeleteOne(s)
        \/ MongoDeleteDec(s)
        \/ SvcRespond(s)
        \/ SeqEnd(s)

SpecSeq == InitSeq /\ [][NextSeq]_vars

\* register T1, register T2, register T3, delete T1, register T3
Script ==
    << [kind |-> "create", team |-> <<"A">>], [kind |-> "create", team |-> <<"B">>],
       [kind |-> "create", team |-> <<"C">>], [kind |-> "delete", team |-> <<"A">>],
       [kind |-> "create", team |-> <<"C">>] >>

\* success, success, failure reported as full, one row deleted, success
Expected ==
    << [outcome |-> "200 success", changes |-> 0], [outcome |-> "200 success", changes |-> 0],
       [outcome |-> "409 full", changes |-> 0], [outcome |-> "200 deleted", changes |-> 1],
       [outcome |-> "200 success", changes |-> 0] >>

\* The first n answered requests are the first n requests of the script.
FollowsScript(n) ==
    /\ n <= Len(Script)
    /\ n <= Len(log)
    /\ \A i \in 1..n : log[i].kind = Script[i].kind /\ log[i].team = Script[i].team

\* C13: on either backend, as long as the sequential client follows the
\* script register T1, register T2, register T3, delete T1, register T3 on a
\* statement with maxSelections 2 and no registrations, the answers are
\* success, success, full, one row deleted, success.
C13_SequentialScript ==
    \A n \in 1..Len(log) :
        FollowsScript(n)
            => /\ log[n].outcome = Expected[n].outcome
               /\ log[n].changes = Expected[n].changes

\* The whole script has been answered by the server on the Transactional
\* Backend, and T2 and T3 are the registered teams.
C13_Witness ==
    /\ db = "mongo"
    /\ FollowsScript(Len(Script))
    /\ HasTeam(regs, <<"B">>) /\ HasTeam(regs, <<"C">>) /\ ~HasTeam(regs, <<"A">>)

----------------------------------------------------------------------------
(* One server of two node processes, concurrent register requests *)

AppRegister(s, teamNumber, id) == HandleRegister(s, teamNumber, id, MaxCalls)

NextApp ==
    \E s \in Registrars :
        \/ \E r \in AppInputs(s) : AppRegister(s, r[1], r[2])
        \/ db = "json" /\ SvcIsTaken(s)
        \/ db = "json" /\ SvcGetPs(s)
        \/ db = "json" /\ SvcLoadView(s)
        \/ db = "mongo" /\ SvcIsTakenMongo(s)
        \/ db = "mongo" /\ SvcGetPsMongo(s)
        \/ db = "mongo" /\ SvcLoadViewMongo(s)
        \/ FileAcquire(s)
        \/ FileRead(s)
        \/ FileCheck(s)
        \/ AtomicWriteTmp(s)
        \/ AtomicWriteRename(s)
        \/ FileUnlinkFinally(s)
        \/ TxnRead(s)
        \/ TxnReserve(s)
        \/ TxnInsert(s)
        \/ TxnCompensate(s)
        \/ TxnCommit(s)
        \/ SvcRespond(s)
        \/ SvcEnd(s)

SpecApp == InitSeq /\ [][NextApp]_vars

\* C14: a register request whose trimmed teamNumber is that of a
\* registration existing when the request arrives is answered with the
\* duplicate-team outcome, whatever statement it names.
C14_DuplicateTeamAnswer ==
    \A s \in Registrars :
        pc[s] = "responded" /\ op[s].kind = "create" /\ preTaken[s]
            => response[s] = "409 team registered"

----------------------------------------------------------------------------
(* deleteRegistration: the returned count and the frame *)

\* C19: a deleteRegistration that no call for the same team runs beside
\* returns without an error; when the team was registered as the call began
\* it returns changes = 1 and the team is no longer in the file, and when the
\* team was not registered it returns changes = 0 and its write leaves the
\* registrations of the file as they were.
C19_DeleteRegistration ==
    [][\A s \in Deleters :
          /\ op[s].kind = "delete"
          /\ ~overlapped[s]
          /\ pc[s] = "rename"
          /\ pc'[s] = "returned"
          => /\ result'[s] = "ok"
             /\ IF preTaken[s]
                THEN /\ changes[s] = 1
                     /\ ~TeamTaken(file'.registrations, op[s].teamNumber)
                ELSE /\ changes[s] = 0
                     /\ file'.registrations = file.registrations]_vars

----------------------------------------------------------------------------
(* getAllProblemStatements: the annotated counts *)

\* C20: whenever getAllProblemStatements is answered, the selected_count of
\* the requested statement's entry equals the number of registrations that
\* reference the statement in the persisted file at that time, and
\* is_available holds exactly when selected_count < max_selections, where
\* max_selections is the stored limit raised to at least 1.
C20_FreshSelectedCount ==
    [][\A s \in SvcSlots :
          /\ pc[s] = "view"
          /\ pc'[s] = "acquire"
          => /\ view'[s].selectedCount = RegCount(Persisted, op[s].problemStatementId)
             /\ view'[s].maxSelections >= 1
             /\ view'[s].isAvailable
                    <=> (view'[s].selectedCount < view'[s].maxSelections)]_vars

----------------------------------------------------------------------------
(* init() and resetAll() of both backends, from any stored state *)

\* Calls of init() and resetAll() started in one behaviour.
MaxStoreCalls == 3

\* Two callers of the one backend object of node process 1.
StoreSlots == {1, 3}

\* this.defaultData
defaultData == [problemStatements |-> <<>>, registrations |-> <<>>]

\* A catalog an administrator has edited: one statement, one team allowed.
EditedCatalog == << [id |-> "ps001", maxSelections |-> 1] >>

\* What is stored when the process starts: nothing at all, an empty store,
\* or an edited catalog with one registration.
StartStores ==
    { [present |-> FALSE, catalog |-> <<>>, registrations |-> <<>>],
      [present |-> TRUE, catalog |-> <<>>, registrations |-> <<>>],
      [present |-> TRUE, catalog |-> EditedCatalog,
       registrations |-> <<Record(<<"A">>, "ps001")>>] }

\* The state after the constructors: memoryData is not set (it is assigned
\* before init and resetAll read it), this.db is null.
InitStart ==
    /\ InitCalls /\ InitSvc
    /\ db \in {"json", "mongo"}
    /\ log = <<>>
    /\ before = [s \in Slots |-> NoStore]
    /\ InitExtra
    /\ tmp = NoFile
    /\ lock = 0
    /\ memoryData = [h \in Hosts |-> defaultData]
    /\ sel = [id \in PsIds |-> 0]
    /\ cur = [s \in Slots |-> 0]
    /\ act = [s \in Slots |-> 0]
    /\ wsel = [s \in Slots |-> <<>>]
    /\ touched = [s \in Slots |-> NoTouch]
    /\ dreg = [s \in Slots |-> ""]
    /\ alone = [s \in Slots |-> FALSE]
    /\ preRegs = [s \in Slots |-> <<>>]
    /\ preSel = [s \in Slots |-> [id \in PsIds |-> 0]]
    /\ thisDb = [h \in Hosts |-> FALSE]
    /\ \E st \in StartStores :
          IF db = "json"
          THEN /\ exists = st.present
               /\ file = [problemStatements |-> st.catalog, registrations |-> st.registrations]
               /\ regs = <<>> /\ psColl = <<>> /\ psIndex = FALSE
          ELSE /\ regs = st.registrations
               /\ psColl = st.catalog
               /\ psIndex = st.present
               /\ exists = FALSE /\ file = defaultData

\* The catalog and the registrations of the selected backend.
Store ==
    IF db = "json"
    THEN IF exists
         THEN [catalog |-> file.problemStatements, registrations |-> file.registrations]
         ELSE NoStore
    ELSE [catalog |-> psColl, registrations |-> regs]

\* Variables no step of init() or resetAll() changes.
idleVars == <<lock, attempt, failed, changes, sel, cur, act, wsel, touched, dreg,
              preRegs, preSel, view, response, db, extraVars>>

\* Variables only the begin and the end of a call change.
stepFrame == <<op, calls, preTaken, overlapped, expect, delMiss, alone, before, log>>

fileStore == <<file, tmp, memoryData, data, exists>>

mongoStore == <<regs, psColl, psIndex, thisDb>>

StoreBegin(s, kind) ==
    /\ BeginCall(s, kind, <<>>, "", FALSE, MaxStoreCalls)
    /\ alone' = [t \in Slots |-> t = s /\ Quiescent]
    /\ before' = [before EXCEPT ![s] = Store]
    /\ log' = log
    /\ UNCHANGED idleVars

----------------------------------------------------------------------------
(* File Backend: init, seedProblemStatements, resetAll *)

\* !Array.isArray(data.problemStatements) || data.problemStatements.length === 0
CatalogEmpty_Always(doc) == TRUE

CatalogEmpty(doc) == Len(doc.problemStatements) = 0

\* init() up to its first await: existsSync, and the head of #atomicWrite
\* when the file is missing.
FileInit(s) ==
    /\ db = "json"
    /\ StoreBegin(s, "init")
    /\ IF exists
       THEN /\ pc' = [pc EXCEPT ![s] = "iread"]
            /\ UNCHANGED <<memoryData, data>>
       ELSE /\ memoryData' = [memoryData EXCEPT ![HostOf(s)] = defaultData]
            /\ data' = [data EXCEPT ![s] = defaultData]
            /\ pc' = [pc EXCEPT ![s] = "iwriteTmp"]
    /\ UNCHANGED <<file, tmp, exists>>
    /\ UNCHANGED mongoStore

\* resetAll() up to its first await: the head of #atomicWrite(data).
FileReset(s) ==
    /\ db = "json"
    /\ StoreBegin(s, "reset")
    /\ memoryData' = [memoryData EXCEPT ![HostOf(s)] = defaultData]
    /\ data' = [data EXCEPT ![s] = defaultData]
    /\ pc' = [pc EXCEPT ![s] = "iwriteTmp"]
    /\ UNCHANGED <<file, tmp, exists>>
    /\ UNCHANGED mongoStore

\* #atomicWrite of the empty document: await fsp.writeFile(tmpPath, str)
InitWriteTmp(s) ==
    /\ pc[s] = "iwriteTmp"
    /\ tmp' = <<data[s]>>
    /\ pc' = [pc EXCEPT ![s] = "irename"]
    /\ UNCHANGED <<result, file, memoryData, data, exists>>
    /\ UNCHANGED <<mongoStore, stepFrame, idleVars>>

\* #atomicWrite of the empty document: await fsp.rename(tmpPath, dataFilePath),
\* which rejects with ENOENT when the tmp file is gone.  init goes on to read
\* the file, resetAll to seedProblemStatements.
InitRename(s) ==
    /\ pc[s] = "irename"
    /\ IF tmp # NoFile
       THEN /\ file' = tmp[1]
            /\ tmp' = NoFile
            /\ exists' = TRUE
            /\ result' = result
            /\ pc' = [pc EXCEPT ![s] = IF op[s].kind = "init" THEN "iread" ELSE "seed"]
       ELSE /\ UNCHANGED <<file, tmp, exists>>
            /\ result' = [result EXCEPT ![s] = "throw"]
            /\ pc' = [pc EXCEPT ![s] = "returned"]
    /\ UNCHANGED <<memoryData, data>>
    /\ UNCHANGED <<mongoStore, stepFrame, idleVars>>

\* this.memoryData = (await this.#readFromSource()) || {...defaultData}, and
\* the test of the catalog.
InitRead(s) ==
    /\ pc[s] = "iread"
    /\ LET d == IF exists THEN file ELSE defaultData
       IN /\ memoryData' = [memoryData EXCEPT ![HostOf(s)] = d]
          /\ IF CatalogEmpty(d)
             THEN /\ pc' = [pc EXCEPT ![s] = "seed"]
                  /\ result' = result
             ELSE /\ pc' = [pc EXCEPT ![s] = "returned"]
                  /\ result' = [result EXCEPT ![s] = "ok"]
    /\ UNCHANGED <<file, tmp, data, exists>>
    /\ UNCHANGED <<mongoStore, stepFrame, idleVars>>

\* seedProblemStatements: data = await this.#read(); data.problemStatements =
\* defaults; the head of #atomicWrite(data).  The write itself is
\* AtomicWriteTmp and AtomicWriteRename.
SeedPrepare(s) ==
    /\ pc[s] = "seed"
    /\ LET d == [memoryData[HostOf(s)] EXCEPT !.problemStatements = defaults]
       IN /\ memoryData' = [memoryData EXCEPT ![HostOf(s)] = d]
          /\ data' = [data EXCEPT ![s] = d]
    /\ pc' = [pc EXCEPT ![s] = "writeTmp"]
    /\ UNCHANGED <<result, file, tmp, exists>>
    /\ UNCHANGED <<mongoStore, stepFrame, idleVars>>

----------------------------------------------------------------------------
(* Transactional Backend: init, resetAll *)

\* if (this.db) return;
AlreadyOpen(h) == thisDb[h]

NoDuplicateIds(catalog) ==
    \A i, j \in 1..Len(catalog) : catalog[i].id = catalog[j].id => i = j

\* The first document of insertMany(docs) that the unique index on id
\* rejects, or 0.
FirstClash(coll, docs) ==
    LET clash(k) == psIndex /\ \E i \in 1..Len(coll) : coll[i].id = docs[k].id
    IN IF \E k \in 1..Len(docs) : clash(k)
       THEN CHOOSE k \in 1..Len(docs) : clash(k) /\ \A j \in 1..(k - 1) : ~clash(j)
       ELSE 0

\* Where init() returns to: its caller, or resetAll's deleteMany when
\* resetAll called it because this.collections was not set.
InitDone(s) == IF op[s].kind = "reset" THEN "delRegs" ELSE "returned"

MongoInit(s) ==
    /\ db = "mongo"
    /\ StoreBegin(s, "init")
    /\ pc' = [pc EXCEPT ![s] = IF AlreadyOpen(HostOf(s)) THEN "returned" ELSE "connect"]
    /\ UNCHANGED <<fileStore, mongoStore>>

\* if (!this.collections) await this.init();
MongoReset(s) ==
    /\ db = "mongo"
    /\ StoreBegin(s, "reset")
    /\ pc' = [pc EXCEPT ![s] = IF AlreadyOpen(HostOf(s)) THEN "delRegs" ELSE "connect"]
    /\ UNCHANGED <<fileStore, mongoStore>>

\* await this.client.connect(); this.db = ...; this.collections = { ps, regs }
MongoConnect(s) ==
    /\ pc[s] = "connect"
    /\ thisDb' = [thisDb EXCEPT ![HostOf(s)] = TRUE]
    /\ pc' = [pc EXCEPT ![s] = "index"]
    /\ UNCHANGED <<result, regs, psColl, psIndex>>
    /\ UNCHANGED <<fileStore, stepFrame, idleVars>>

\* ps.createIndex({ id: 1 }, { unique: true }) and the registrations
\* indexes; on duplicate ids the index is dropped, the retry fails again and
\* init goes on without it.
MongoCreateIndexes(s) ==
    /\ pc[s] = "index"
    /\ psIndex' = (psIndex \/ NoDuplicateIds(psColl))
    /\ pc' = [pc EXCEPT ![s] = "count"]
    /\ UNCHANGED <<result, regs, psColl, thisDb>>
    /\ UNCHANGED <<fileStore, stepFrame, idleVars>>

\* const count = await ps.estimatedDocumentCount(); if (count === 0) ...
MongoCount(s) ==
    /\ pc[s] = "count"
    /\ IF Len(psColl) = 0
       THEN /\ pc' = [pc EXCEPT ![s] = "insert"]
            /\ result' = result
       ELSE /\ pc' = [pc EXCEPT ![s] = InitDone(s)]
            /\ result' = [result EXCEPT ![s] = IF InitDone(s) = "returned" THEN "ok" ELSE @]
    /\ UNCHANGED mongoStore
    /\ UNCHANGED <<fileStore, stepFrame, idleVars>>

\* await ps.insertMany(defaults): ordered, it stops and rejects at the first
\* document the unique index refuses.
MongoInsertMany(s) ==
    /\ pc[s] = "insert"
    /\ LET k == FirstClash(psColl, defaults)
       IN IF k = 0
          THEN /\ psColl' = psColl \o defaults
               /\ pc' = [pc EXCEPT ![s] = InitDone(s)]
               /\ result' = [result EXCEPT ![s] = IF InitDone(s) = "returned" THEN "ok" ELSE @]
          ELSE /\ psColl' = psColl \o SubSeq(defaults, 1, k - 1)
               /\ pc' = [pc EXCEPT ![s] = "returned"]
               /\ result' = [result EXCEPT ![s] = "throw"]
    /\ UNCHANGED <<regs, psIndex, thisDb>>
    /\ UNCHANGED <<fileStore, stepFrame, idleVars>>

\* await regs.deleteMany({})
MongoDeleteRegs(s) ==
    /\ pc[s] = "delRegs"
    /\ regs' = <<>>
    /\ pc' = [pc EXCEPT ![s] = "delPs"]
    /\ UNCHANGED <<result, psColl, psIndex, thisDb>>
    /\ UNCHANGED <<fileStore, stepFrame, idleVars>>

\* await ps.deleteMany({}); await this.init(); return true.  this.db is set
\* whenever resetAll is here, so this init() returns at its first line.
MongoDeletePs(s) ==
    /\ pc[s] = "delPs"
    /\ AlreadyOpen(HostOf(s))
    /\ psColl' = <<>>
    /\ pc' = [pc EXCEPT ![s] = "returned"]
    /\ result' = [result EXCEPT ![s] = "ok"]
    /\ UNCHANGED <<regs, psIndex, thisDb>>
    /\ UNCHANGED <<fileStore, stepFrame, idleVars>>

----------------------------------------------------------------------------
(* init() and resetAll(): specification *)

\* The call has returned or thrown; the caller notes what is stored.
StoreEnd(s) ==
    /\ EndCall(s, "returned")
    /\ log' = Append(log, [kind |-> op[s].kind,
                           outcome |-> IF result[s] = "throw" THEN "throw" ELSE "ok",
                           alone |-> alone[s],
                           before |-> before[s],
                           after |-> Store])
    /\ before' = [before EXCEPT ![s] = NoStore]
    /\ alone' = [alone EXCEPT ![s] = FALSE]
    /\ UNCHANGED <<calls, file, tmp, lock, memoryData, exists, mongoStore>>
    /\ UNCHANGED <<sel, cur, act, wsel, touched, dreg, preRegs, preSel, view, response, db,
                   extraVars>>

NextStore ==
    \E s \in StoreSlots :
        \/ FileInit(s)
        \/ FileReset(s)
        \/ InitWriteTmp(s)
        \/ InitRename(s)
        \/ InitRead(s)
        \/ SeedPrepare(s)
        \/ AtomicWriteTmp(s)
        \/ AtomicWriteRename(s)
        \/ MongoInit(s)
        \/ MongoReset(s)
        \/ MongoConnect(s)
        \/ MongoCreateIndexes(s)
        \/ MongoCount(s)
        \/ MongoInsertMany(s)
        \/ MongoDeleteRegs(s)
        \/ MongoDeletePs(s)
        \/ StoreEnd(s)

SpecStore == InitStart /\ [][NextStore]_vars

----------------------------------------------------------------------------
(* init() and resetAll(): claims *)

\* The n-th and the (n+1)-th completed calls are init() calls that ran one
\* after the other, with no other call in flight.
InitTwice(n) ==
    /\ n + 1 <= Len(log)
    /\ log[n].kind = "init" /\ log[n].alone
    /\ log[n + 1].kind = "init" /\ log[n + 1].alone

\* C16: on either backend, two init() calls in succession both succeed, the
\* catalog and the registrations after the second are those after the first,
\* no statement id is stored twice, and the first call leaves the
\* registrations and a catalog that was not empty as it found them.
C16_InitTwice ==
    \A n \in 1..Len(log) :
        InitTwice(n)
            => /\ log[n].outcome = "ok"
               /\ log[n + 1].outcome = "ok"
               /\ log[n + 1].after = log[n].after
               /\ NoDuplicateIds(log[n + 1].after.catalog)
               /\ log[n].after.registrations = log[n].before.registrations
               /\ (log[n].before.catalog # <<>>
                     => log[n].after.catalog = log[n].before.catalog)

\* init() ran twice in succession on the File Backend, starting without a
\* data file, and the seeded catalog is stored once.
C16_Witness ==
    /\ db = "json"
    /\ InitTwice(1)
    /\ log[1].before = NoStore
    /\ log[2].after.catalog = defaults
    /\ exists

\* Every call made so far is an init() call.
OnlyInit ==
    /\ \A n \in 1..Len(log) : log[n].kind = "init"
    /\ \A s \in StoreSlots : op[s].kind \in {"none", "init"}

\* C17: when init() calls of one backend object interleave, each of them
\* completes without an error, and once they are done the catalog is stored
\* once: the seed catalog when there was none, with no id twice.
C17_ConcurrentInit ==
    OnlyInit
        => /\ \A n \in 1..Len(log) : log[n].outcome = "ok"
           /\ (Quiescent /\ Len(log) > 0
                 => /\ NoDuplicateIds(Store.catalog)
                    /\ (log[1].before.catalog = <<>> => Store.catalog = defaults))

\* C18: a resetAll() call that ran with no other call in flight completes,
\* and after it there are no registrations and the catalog is the three
\* default statements, each with maxSelections 2.
C18_ResetAll ==
    \A n \in 1..Len(log) :
        log[n].kind = "reset" /\ log[n].alone
            => /\ log[n].outcome = "ok"
               /\ log[n].after.registrations = <<>>
               /\ log[n].after.catalog = defaults

----------------------------------------------------------------------------
(* The two backends side by side: one caller, the same calls on both *)

\* Calls the caller makes in one behaviour, each on both backends.
MaxPairOps == 5

\* The File Backend is called in slot 1, the Transactional Backend in slot 2.
FileSlot == 1
MongoSlot == 2

PairRegisterInputs ==
    { << <<"A">>, "ps001" >>, << <<"B">>, "ps001" >>, << <<"C">>, "ps001" >>,
      << <<" ", "A", " ">>, "ps002" >>, << <<"B">>, "ps404" >> }

PairDeleteInputs == { <<"A", " ">>, <<"C">> }

PairTeamInputs == { <<" ", "A">>, <<"B">> }

\* What a call returned: result and changes.
Returned(s) == [result |-> result[s], changes |-> changes[s]]

NotReturned == [result |-> "none", changes |-> 0]

\* The last call has been made on the File Backend only.
PairPending == Len(log) > 0 /\ ~log[Len(log)].done

PairReady == Quiescent /\ ~PairPending /\ Len(log) < MaxPairOps

\* createRegistrationAtomic(registration) on the File Backend
PairCreate(teamNumber, id) ==
    /\ PairReady
    /\ BeginCall(FileSlot, "create", teamNumber, id,
                 TeamTaken(file.registrations, teamNumber), 2 * MaxPairOps)
    /\ pc' = [pc EXCEPT ![FileSlot] = "acquire"]
    /\ UNCHANGED changes
    /\ UNCHANGED fileVars
    /\ UNCHANGED mongoVars
    /\ UNCHANGED svcVars
    /\ UNCHANGED runVars

\* deleteRegistration(teamNumber) on the File Backend
PairDelete(teamNumber) ==
    /\ PairReady
    /\ BeginCall(FileSlot, "delete", teamNumber, "",
                 TeamTaken(file.registrations, teamNumber), 2 * MaxPairOps)
    /\ pc' = [pc EXCEPT ![FileSlot] = "dprep"]
    /\ UNCHANGED changes
    /\ UNCHANGED fileVars
    /\ UNCHANGED mongoVars
    /\ UNCHANGED svcVars
    /\ UNCHANGED runVars

\* The File Backend has returned; the caller notes the result.
PairFileDone ==
    /\ EndCall(FileSlot, "returned")
    /\ log' = Append(log, [kind |-> op[FileSlot].kind,
                           teamNumber |-> op[FileSlot].teamNumber,
                           id |-> op[FileSlot].problemStatementId,
                           file |-> Returned(FileSlot),
                           mongo |-> NotReturned,
                           done |-> FALSE])
    /\ UNCHANGED <<calls, file, tmp, lock, memoryData>>
    /\ UNCHANGED mongoVars
    /\ UNCHANGED svcVars
    /\ UNCHANGED <<db, exists, psColl, psIndex, thisDb, before, extraVars>>

\* The same call on the Transactional Backend.
PairMongoStart ==
    /\ Quiescent
    /\ PairPending
    /\ LET call == log[Len(log)]
       IN /\ BeginCall(MongoSlot, call.kind, call.teamNumber, call.id,
                       HasTeam(regs, Trim(call.teamNumber)), 2 * MaxPairOps)
          /\ pc' = [pc EXCEPT ![MongoSlot] = IF call.kind = "create" THEN "mread" ELSE "dfind"]
    /\ UNCHANGED changes
    /\ UNCHANGED fileVars
    /\ UNCHANGED mongoVars
    /\ UNCHANGED svcVars
    /\ UNCHANGED runVars

\* The Transactional Backend has returned; the caller notes the result.
PairMongoDone ==
    /\ EndCall(MongoSlot, "returned")
    /\ log' = [log EXCEPT ![Len(log)].mongo = Returned(MongoSlot),
                          ![Len(log)].done = TRUE]
    /\ cur' = [cur EXCEPT ![MongoSlot] = 0]
    /\ act' = [act EXCEPT ![MongoSlot] = 0]
    /\ dreg' = [dreg EXCEPT ![MongoSlot] = ""]
    /\ UNCHANGED <<calls, file, tmp, lock, memoryData>>
    /\ UNCHANGED <<regs, sel, wsel, touched, alone, preRegs, preSel>>
    /\ UNCHANGED svcVars
    /\ UNCHANGED <<db, exists, psColl, psIndex, thisDb, before, extraVars>>

Truth(b) == IF b THEN "true" ELSE "false"

\* isTeamNumberTaken(teamNumber) on both backends
PairIsTaken(teamNumber) ==
    /\ PairReady
    /\ log' = Append(log,
          [kind |-> "isTaken", teamNumber |-> teamNumber, id |-> "",
           file |-> [result |-> Truth(TeamTaken(memoryData[HostOf(FileSlot)].registrations,
                                                teamNumber)),
                     changes |-> 0],
           mongo |-> [result |-> Truth(HasTeam(regs, Trim(teamNumber))), changes |-> 0],
           done |-> TRUE])
    /\ UNCHANGED <<pc, op, result, calls, changes, preTaken, overlapped, expect, delMiss>>
    /\ UNCHANGED fileVars
    /\ UNCHANGED mongoVars
    /\ UNCHANGED svcVars
    /\ UNCHANGED <<db, exists, psColl, psIndex, thisDb, before, extraVars>>

\* getAllProblemStatements() on both backends: selected_count,
\* max_selections and is_available of every statement.
PairGetAll ==
    /\ PairReady
    /\ log' = Append(log,
          [kind |-> "getAll", teamNumber |-> <<>>, id |-> "",
           file |-> [result |-> [id \in PsIds |-> ViewOf(memoryData[HostOf(FileSlot)], id)],
                     changes |-> 0],
           mongo |-> [result |-> [id \in PsIds |-> ViewOfMongo(regs, id)], changes |-> 0],
           done |-> TRUE])
    /\ UNCHANGED <<pc, op, result, calls, changes, preTaken, overlapped, expect, delMiss>>
    /\ UNCHANGED fileVars
    /\ UNCHANGED mongoVars
    /\ UNCHANGED svcVars
    /\ UNCHANGED <<db, exists, psColl, psIndex, thisDb, before, extraVars>>

NextPair ==
    \/ \E r \in PairRegisterInputs : PairCreate(r[1], r[2])
    \/ \E t \in PairDeleteInputs : PairDelete(t)
    \/ \E t \in PairTeamInputs : PairIsTaken(t)
    \/ PairGetAll
    \/ FileAcquire(FileSlot)
    \/ FileRead(FileSlot)
    \/ FileCheck(FileSlot)
    \/ AtomicWriteTmp(FileSlot)
    \/ AtomicWriteRename(FileSlot)
    \/ FileUnlinkFinally(FileSlot)
    \/ FileDeletePrepare(FileSlot)
    \/ PairFileDone
    \/ PairMongoStart
    \/ TxnRead(MongoSlot)
    \/ TxnReserve(MongoSlot)
    \/ TxnInsert(MongoSlot)
    \/ TxnCommit(MongoSlot)
    \/ MongoDeleteFind(MongoSlot)
    \/ MongoDeleteOne(MongoSlot)
    \/ MongoDeleteDec(MongoSlot)
    \/ PairMongoDone

SpecPair == Init /\ [][NextPair]_vars

SetOf(docs) == { docs[i] : i \in 1..Len(docs) }

\* C21: for every sequence of createRegistrationAtomic, deleteRegistration,
\* isTeamNumberTaken and getAllProblemStatements calls made one after the
\* other on both backends from the seeded catalog, each call returns the
\* same on both (the result, the changes count, the selected_count and
\* is_available of every statement), and the backends hold the same set of
\* registrations whenever a call has been completed on both.
C21_BackendsAgree ==
    /\ \A n \in 1..Len(log) : log[n].done => log[n].file = log[n].mongo
    /\ (Quiescent /\ ~PairPending => SetOf(file.registrations) = SetOf(regs))

\* Both backends have refused a register for a full statement, have deleted
\* one of its registrations with changes = 1 and have then accepted a
\* register for it.
C21_Witness ==
    /\ ~PairPending
    /\ \E i, j, k \in 1..Len(log) :
          /\ i < j /\ j < k
          /\ log[i].kind = "create" /\ log[i].mongo.result = "null" /\ log[i].id = "ps001"
          /\ log[i].teamNumber = <<"C">>
          /\ log[j].kind = "delete" /\ log[j].mongo.changes = 1
          /\ log[k].kind = "create" /\ log[k].mongo.result = "ok" /\ log[k].id = "ps001"

----------------------------------------------------------------------------
(* POST /api/register: the required fields of the request body *)

FullBody(teamNumber, id) ==
    [teamNumber |-> teamNumber, teamName |-> "name", teamLeader |-> "leader",
     problemStatementId |-> id]

\* Request bodies: complete ones, and one without each of the four fields.
BodyInputs(s) ==
    IF s = 1
    THEN { FullBody(<<"A">>, "ps001"),
           [FullBody(<<"A">>, "ps001") EXCEPT !.teamName = ""],
           [FullBody(<<"C">>, "ps001") EXCEPT !.problemStatementId = ""] }
    ELSE { FullBody(<<"B">>, "ps001"),
           [FullBody(<<"B">>, "ps002") EXCEPT !.teamLeader = ""],
           FullBody(<<>>, "ps001") }

\* !teamNumber || !teamName || !teamLeader || !problemStatementId
Missing_NoLeader(b) ==
    b.teamNumber = <<>> \/ b.teamName = "" \/ b.problemStatementId = ""

Missing(b) ==
    b.teamNumber = <<>> \/ b.teamName = "" \/ b.teamLeader = "" \/ b.problemStatementId = ""

\* POST /api/register up to the first await, with the whole body.
PostRegister(s, b) ==
    /\ BeginCall(s, "create", b.teamNumber, b.problemStatementId,
                 IF db = "json" THEN TeamTaken(file.registrations, b.teamNumber)
                 ELSE HasTeam(regs, Trim(b.teamNumber)),
                 MaxCalls)
    /\ body' = [body EXCEPT ![s] = b]
    /\ IF Missing(b)
       THEN Respond(s, "400 missing fields")
       ELSE /\ pc' = [pc EXCEPT ![s] = "isTaken"]
            /\ response' = [response EXCEPT ![s] = "none"]
    /\ UNCHANGED <<changes, view>>
    /\ UNCHANGED fileVars
    /\ UNCHANGED mongoVars
    /\ UNCHANGED <<db, log, exists, psColl, psIndex, thisDb, before>>
    /\ UNCHANGED <<subscriberVars, bootVars, releaseVars, regsIndex>>

NextBody ==
    \E s \in Registrars :
        \/ \E b \in BodyInputs(s) : PostRegister(s, b)
        \/ db = "json" /\ SvcIsTaken(s)
        \/ db = "json" /\ SvcGetPs(s)
        \/ db = "json" /\ SvcLoadView(s)
        \/ db = "mongo" /\ SvcIsTakenMongo(s)
        \/ db = "mongo" /\ SvcGetPsMongo(s)
        \/ db = "mongo" /\ SvcLoadViewMongo(s)
        \/ FileAcquire(s)
        \/ FileRead(s)
        \/ FileCheck(s)
        \/ AtomicWriteTmp(s)
        \/ AtomicWriteRename(s)
        \/ FileUnlinkFinally(s)
        \/ TxnRead(s)
        \/ TxnReserve(s)
        \/ TxnInsert(s)
        \/ TxnCommit(s)
        \/ SvcRespond(s)
        \/ SvcEnd(s)

SpecBody == InitSeq /\ [][NextBody]_vars

\* One of the four fields of the body is absent or empty.
LacksField(b) ==
    \/ b.teamNumber = <<>>
    \/ \E f \in {"teamName", "teamLeader", "problemStatementId"} : b[f] = ""

\* C22: a register request whose body lacks teamNumber, teamName,
\* teamLeader or problemStatementId is answered with the missing-fields
\* error in the step that receives it, no backend operation runs for it, and
\* no step of it changes the file, the cache, the lock, the registrations
\* collection or a selectedCount.
C22_MissingFields ==
    /\ [](\A s \in Registrars :
            op[s].kind = "create" /\ LacksField(body[s])
                => pc[s] = "responded" /\ response[s] = "400 missing fields")
    /\ [][\A s \in Registrars :
            pc'[s] # pc[s] /\ (LacksField(body'[s]) \/ LacksField(body[s]))
                /\ (op[s].kind = "create" \/ op'[s].kind = "create")
                /\ body'[s] # body[s]
                => /\ file' = file /\ tmp' = tmp /\ lock' = lock
                   /\ memoryData' = memoryData
                   /\ regs' = regs /\ sel' = sel]_vars

\* A request without teamLeader has been answered with the missing-fields
\* error while a complete request of the other process was registered.
C22_Witness ==
    /\ pc[2] = "responded"
    /\ body[2].teamLeader = "" /\ body[2].teamNumber # <<>>
    /\ response[2] = "400 missing fields"
    /\ pc[1] = "responded" /\ response[1] = "200 success"

----------------------------------------------------------------------------
(* Change notifications: GET /api/events and broadcastUpdate *)

\* Register and delete requests in one behaviour with subscribers.
MaxNotifyCalls == 3

NotifyRegisterInputs == { << <<"A">>, "ps001" >>, << <<"B">>, "ps404" >> }

NotifyDeleteInputs == { <<"A", " ">>, <<"C">> }

InSeq(seq, x) == \E i \in 1..Len(seq) : seq[i] = x

Without(seq, gone) == SelectSeq(seq, LAMBDA x : x \notin gone)

\* GET /api/events: connectedClients.add(res)
Subscribe(c) ==
    /\ ~InSeq(clients, c)
    /\ c \notin broken
    /\ clients' = Append(clients, c)
    /\ UNCHANGED <<broken, delivered, body, bootVars, releaseVars, regsIndex>>
    /\ UNCHANGED <<pc, op, result, calls, changes, preTaken, overlapped, expect, delMiss>>
    /\ UNCHANGED fileVars
    /\ UNCHANGED mongoVars
    /\ UNCHANGED svcVars
    /\ UNCHANGED <<db, log, exists, psColl, psIndex, thisDb, before>>

\* The connection of a subscriber fails; from now on res.write throws.
Break(c) ==
    /\ InSeq(clients, c)
    /\ c \notin broken
    /\ broken' = broken \cup {c}
    /\ UNCHANGED <<clients, delivered, body, bootVars, releaseVars, regsIndex>>
    /\ UNCHANGED <<pc, op, result, calls, changes, preTaken, overlapped, expect, delMiss>>
    /\ UNCHANGED fileVars
    /\ UNCHANGED mongoVars
    /\ UNCHANGED svcVars
    /\ UNCHANGED <<db, log, exists, psColl, psIndex, thisDb, before>>

\* connectedClients.forEach((client) => { try { client.write(message) }
\* catch (_) { connectedClients.delete(client) } }): the i-th client is
\* written to whatever happened to the clients before it.
Attempted_UntilThrow(i) == \A j \in 1..(i - 1) : clients[j] \notin broken

Attempted(i) == TRUE

\* The clients the message is written to, and those that are dropped.
WrittenTo == { clients[i] : i \in { j \in 1..Len(clients) : Attempted(j) /\ clients[j] \notin broken } }

Dropped == { clients[i] : i \in { j \in 1..Len(clients) : Attempted(j) /\ clients[j] \in broken } }

\* The backend call changed the store: a registration was created, or
\* deleteRegistration reported changes > 0.
Succeeded(s) ==
    /\ pc[s] = "returned"
    /\ result[s] = "ok"
    /\ op[s].kind = "delete" => changes[s] > 0

\* The notification block of the handlers: the reads, then broadcastUpdate.
Notify(s) ==
    /\ Succeeded(s)
    /\ delivered' = [c \in Subscribers |-> IF c \in WrittenTo THEN delivered[c] + 1
                                           ELSE delivered[c]]
    /\ clients' = Without(clients, Dropped)
    /\ broken' = broken
    /\ pc' = [pc EXCEPT ![s] = "notified"]
    /\ UNCHANGED <<body, bootVars, releaseVars, regsIndex, op, result, calls, changes, preTaken, overlapped, expect, delMiss>>
    /\ UNCHANGED fileVars
    /\ UNCHANGED mongoVars
    /\ UNCHANGED svcVars
    /\ UNCHANGED <<db, log, exists, psColl, psIndex, thisDb, before>>

\* res.json(...) after the notification block.
RespondNotified(s) ==
    /\ pc[s] = "notified"
    /\ Respond(s, Answer(s))
    /\ UNCHANGED <<op, result, calls, changes, preTaken, overlapped, expect, delMiss, view>>
    /\ UNCHANGED fileVars
    /\ UNCHANGED mongoVars
    /\ UNCHANGED runVars

\* DELETE /api/registration/:teamNumber up to db.deleteRegistration.
NotifyDelete(s, teamNumber) ==
    /\ BeginCall(s, "delete", teamNumber, "",
                 IF db = "json" THEN TeamTaken(file.registrations, teamNumber)
                 ELSE HasTeam(regs, Trim(teamNumber)),
                 MaxNotifyCalls)
    /\ pc' = [pc EXCEPT ![s] = IF db = "json" THEN "dprep" ELSE "dfind"]
    /\ UNCHANGED changes
    /\ UNCHANGED fileVars
    /\ UNCHANGED mongoVars
    /\ UNCHANGED svcVars
    /\ UNCHANGED runVars

NextNotify ==
    \/ \E c \in Subscribers : Subscribe(c)
    \/ \E c \in Subscribers : Break(c)
    \/ \E s \in SeqSlots :
        \/ \E r \in NotifyRegisterInputs : HandleRegister(s, r[1], r[2], MaxNotifyCalls)
        \/ \E t \in NotifyDeleteInputs : NotifyDelete(s, t)
        \/ db = "json" /\ SvcIsTaken(s)
        \/ db = "json" /\ SvcGetPs(s)
        \/ db = "json" /\ SvcLoadView(s)
        \/ db = "mongo" /\ SvcIsTakenMongo(s)
        \/ db = "mongo" /\ SvcGetPsMongo(s)
        \/ db = "mongo" /\ SvcLoadViewMongo(s)
        \/ FileAcquire(s)
        \/ FileRead(s)
        \/ FileCheck(s)
        \/ AtomicWriteTmp(s)
        \/ AtomicWriteRename(s)
        \/ FileUnlinkFinally(s)
        \/ FileDeletePrepare(s)
        \/ TxnRead(s)
        \/ TxnReserve(s)
        \/ TxnInsert(s)
        \/ TxnCommit(s)
        \/ MongoDeleteFind(s)
        \/ MongoDeleteOne(s)
        \/ MongoDeleteDec(s)
        \/ Notify(s)
        \/ RespondNotified(s)
        \/ ~Succeeded(s) /\ SvcRespond(s)
        \/ SeqEnd(s)

SpecNotify == InitSeq /\ [][NextNotify]_vars

\* The team of the request is stored.
Stored(s) ==
    IF db = "json" THEN TeamTaken(file.registrations, op[s].teamNumber)
    ELSE HasTeam(regs, Team(s))

\* C23: when the handler of a successful register or delete writes the
\* change notification, every subscriber whose write does not fail receives
\* it, also when the write to a subscriber before it fails, the stored
\* state is not changed by the notification, and the request is answered
\* with success while its effect is in place.
C23_BestEffortNotification ==
    /\ [](\A s \in SeqSlots :
            pc[s] = "responded" /\ result[s] = "ok"
                => IF op[s].kind = "create"
                   THEN response[s] = "200 success" /\ Stored(s)
                   ELSE changes[s] > 0
                            => response[s] = "200 deleted" /\ ~Stored(s))
    /\ [][\A s \in SeqSlots :
            pc[s] = "returned" /\ pc'[s] = "notified"
                => /\ \A i \in 1..Len(clients) :
                        clients[i] \notin broken
                            => delivered'[clients[i]] = delivered[clients[i]] + 1
                   /\ file' = file /\ regs' = regs /\ sel' = sel
                   /\ result' = result /\ changes' = changes]_vars

\* A register succeeded while the write to the first subscriber failed: the
\* second subscriber got the notification and the request was answered with
\* success.
C23_Witness ==
    /\ pc[1] = "responded"
    /\ op[1].kind = "create"
    /\ response[1] = "200 success"
    /\ \E c, d \in Subscribers :
          /\ c # d
          /\ c \in broken
          /\ ~InSeq(clients, c)
          /\ delivered[c] = 0
          /\ InSeq(clients, d)
          /\ delivered[d] = 1

----------------------------------------------------------------------------
(* Startup of app.js and the fallback to the File Backend *)

MaxBootCalls == 3

BootSlot == 1

ErrorNames == {"MongoServerSelectionError", "MongoNetworkError"}

\* Everything the startup and GET /api/problem-statements leave alone.
bootFrame == <<pc, op, result, file, tmp, lock, attempt, data, failed, changes,
               preTaken, overlapped, expect, delMiss, mongoVars, svcVars,
               exists, psColl, psIndex, before, body, subscriberVars, vercel,
               releaseVars, regsIndex>>

\* app.js being loaded with MONGODB_URI set, in either environment, with the
\* MongoDB server answering or not; no store object exists yet.
InitBoot ==
    /\ InitCalls /\ InitFile /\ InitMongo /\ InitSvc
    /\ db = "unset"
    /\ log = <<>>
    /\ exists = TRUE
    /\ psColl = defaults
    /\ psIndex = TRUE
    /\ thisDb = [h \in Hosts |-> FALSE]
    /\ before = [s \in Slots |-> NoStore]
    /\ body = [s \in Slots |-> NoBody]
    /\ clients = <<>>
    /\ broken = {}
    /\ delivered = [c \in Subscribers |-> 0]
    /\ vercel \in BOOLEAN
    /\ reachable \in BOOLEAN
    /\ boot = "load"
    /\ problemsReleased = "undefined"
    /\ settings = "undefined"
    /\ regsIndex = TRUE

\* The MongoDB server stops or starts answering.
SetReachable(b) ==
    /\ reachable # b
    /\ reachable' = b
    /\ UNCHANGED <<bootFrame, calls, memoryData, db, log, thisDb, boot>>

\* The catch of initializeDatabase: rethrow in the managed environment.
InitMayFallBack == ~vercel

\* The catch of GET /api/problem-statements: fall back outside the managed
\* environment, on a server selection error only.
MayFallBack_Managed(name) == name = "MongoServerSelectionError"

MayFallBack(name) == ~vercel /\ name = "MongoServerSelectionError"

\* db = new DatabaseManager(); await db.init() with data.json present.
FallBack ==
    /\ db' = "json"
    /\ memoryData' = [memoryData EXCEPT ![HostOf(BootSlot)] = file]

Started(outcome, threw) ==
    [op |-> "initializeDatabase", vercel |-> vercel, threw |-> threw,
     outcome |-> outcome]

\* In the managed environment the module runs initializeDatabase while it
\* is being loaded, before `let db` is reached: db.init() throws, the catch
\* of initializeDatabase rethrows, and the wrapper only logs the error.
DbReadyPromise ==
    /\ boot = "load"
    /\ IF vercel
       THEN IF InitMayFallBack
            THEN FallBack /\ log' = Append(log, Started("fallback", TRUE))
            ELSE /\ log' = Append(log, Started("throw", TRUE))
                 /\ UNCHANGED <<db, memoryData>>
       ELSE UNCHANGED <<db, memoryData, log>>
    /\ boot' = "declare"
    /\ UNCHANGED <<bootFrame, calls, thisDb, reachable>>

\* let db; db = new MongoStore(uri, dbName, prefix)
DeclareDb ==
    /\ boot = "declare"
    /\ db' = "mongo"
    /\ boot' = IF vercel THEN "serving" ELSE "start"
    /\ UNCHANGED <<bootFrame, calls, memoryData, log, thisDb, reachable>>

\* startServer outside the managed environment: initializeDatabase, then
\* listen.
StartServer ==
    /\ boot = "start"
    /\ IF reachable
       THEN /\ thisDb' = [thisDb EXCEPT ![HostOf(BootSlot)] = TRUE]
            /\ log' = Append(log, Started("ok", FALSE))
            /\ UNCHANGED <<db, memoryData>>
       ELSE /\ IF InitMayFallBack
               THEN FallBack /\ log' = Append(log, Started("fallback", TRUE))
               ELSE /\ log' = Append(log, Started("throw", TRUE))
                    /\ UNCHANGED <<db, memoryData>>
            /\ thisDb' = thisDb
    /\ boot' = "serving"
    /\ UNCHANGED <<bootFrame, calls, reachable>>

Fetched(released, threw, status) ==
    [op |-> "GET /api/problem-statements", vercel |-> vercel,
     released |-> released, threw |-> threw, outcome |-> status]

\* GET /api/problem-statements: nothing is read while the problems are not
\* released; a MongoStore connects on its first use.
GetProblemStatements(released, name) ==
    /\ boot = "serving"
    /\ calls < MaxBootCalls
    /\ calls' = calls + 1
    /\ IF ~released
       THEN /\ log' = Append(log, Fetched(FALSE, FALSE, "200"))
            /\ UNCHANGED <<db, memoryData, thisDb>>
       ELSE IF db = "json"
       THEN /\ log' = Append(log, Fetched(TRUE, FALSE, "200"))
            /\ UNCHANGED <<db, memoryData, thisDb>>
       ELSE IF reachable
       THEN /\ thisDb' = [thisDb EXCEPT ![HostOf(BootSlot)] = TRUE]
            /\ log' = Append(log, Fetched(TRUE, FALSE, "200"))
            /\ UNCHANGED <<db, memoryData>>
       ELSE /\ ~thisDb[HostOf(BootSlot)] => name = "MongoServerSelectionError"
            /\ IF MayFallBack(name)
               THEN FallBack /\ log' = Append(log, Fetched(TRUE, TRUE, "200"))
               ELSE /\ log' = Append(log, Fetched(TRUE, TRUE, "500"))
                    /\ UNCHANGED <<db, memoryData>>
            /\ thisDb' = thisDb
    /\ UNCHANGED <<bootFrame, reachable, boot>>

NextBoot ==
    \/ DbReadyPromise
    \/ DeclareDb
    \/ StartServer
    \/ \E b \in BOOLEAN : SetReachable(b)
    \/ \E released \in BOOLEAN, name \in ErrorNames :
           GetProblemStatements(released, name)

SpecBoot == InitBoot /\ [][NextBoot]_vars

\* C24: when MongoDB does not answer, the File Backend replaces the
\* MongoStore outside the managed environment only; in the managed
\* environment the active backend is never the File Backend,
\* initializeDatabase rethrows its error, and a request that met the error
\* is answered 500.
C24_FallbackOnlyUnmanaged ==
    /\ vercel => db # "json"
    /\ \A n \in 1..Len(log) :
           /\ (log[n].vercel /\ log[n].threw) =>
                  log[n].outcome = IF log[n].op = "initializeDatabase"
                                   THEN "throw" ELSE "500"
           /\ (log[n].threw /\ log[n].outcome \in {"fallback", "200"}) =>
                  ~log[n].vercel

C24_Witness ==
    /\ vercel
    /\ db = "mongo"
    /\ ~reachable
    /\ \E n \in 1..Len(log) :
           /\ log[n].op = "GET /api/problem-statements"
           /\ log[n].threw
           /\ log[n].outcome = "500"
    /\ \E n \in 1..Len(log) :
           /\ log[n].op = "initializeDatabase"
           /\ log[n].outcome = "throw"

----------------------------------------------------------------------------
(* The release setting: POST /api/admin/release, GET /api/release-status and
   its reload by initializeDatabase *)

MaxReleaseCalls == 4

\* Values of req.body.released; the first four count as released.
ReleaseInputs == {"true", "'true'", "1", "'1'", "false", "yes"}

Released(v) == v \in {"true", "'true'", "1", "'1'"}

BoolStr(b) == IF b THEN "true" ELSE "false"

\* typeof db.getSettings === 'function', typeof db.setSettings === 'function':
\* only MongoStore defines them.
HasSettings == db = "mongo"

releaseFrame == <<pc, op, result, file, tmp, lock, attempt, data, failed,
                  changes, preTaken, overlapped, expect, delMiss, mongoVars,
                  svcVars, exists, psColl, psIndex, before, body,
                  subscriberVars, bootVars, db, regsIndex>>

\* MongoStore.setSettings({ problemsReleased }): merge into the record.
SetSettings(released) == settings' = BoolStr(released)

\* POST /api/admin/release
PostRelease(v) ==
    /\ calls < MaxReleaseCalls
    /\ calls' = calls + 1
    /\ problemsReleased' = BoolStr(Released(v))
    /\ IF HasSettings THEN SetSettings(Released(v)) ELSE settings' = settings
    /\ log' = Append(log, [op |-> "setReleased", released |-> Released(v)])
    /\ UNCHANGED <<releaseFrame, memoryData, thisDb>>

\* GET /api/release-status
GetReleaseStatus ==
    /\ calls < MaxReleaseCalls
    /\ calls' = calls + 1
    /\ log' = Append(log, [op |-> "getReleased",
                           released |-> problemsReleased = "true"])
    /\ UNCHANGED <<releaseFrame, memoryData, thisDb, releaseVars>>

\* The value initializeDatabase leaves in app.locals.problemsReleased of a
\* new process.
Reloaded ==
    IF HasSettings /\ settings \in {"true", "false"}
    THEN settings ELSE "undefined"

\* The process ends and a new one starts: init() of the store, then the
\* settings are loaded; the entry records what GET /api/release-status of
\* the new process answers.
Restart ==
    /\ calls < MaxReleaseCalls
    /\ calls' = calls + 1
    /\ problemsReleased' = Reloaded
    /\ memoryData' = [memoryData EXCEPT ![HostOf(BootSlot)] =
                          IF db = "json" THEN file ELSE @]
    /\ log' = Append(log, [op |-> "restart", released |-> Reloaded = "true"])
    /\ UNCHANGED <<releaseFrame, thisDb, settings>>

NextRelease ==
    \/ \E v \in ReleaseInputs : PostRelease(v)
    \/ GetReleaseStatus
    \/ Restart

SpecRelease == InitSeq /\ [][NextRelease]_vars

LastSet(n) ==
    CHOOSE m \in 1..(n - 1) :
        /\ log[m].op = "setReleased"
        /\ \A k \in (m + 1)..(n - 1) : log[k].op # "setReleased"

\* C25: on either backend, once setReleased(b) has completed, getReleased of
\* the process started next by initializeDatabase answers b.
C25_ReleasePersisted ==
    \A n \in 1..Len(log) :
        (/\ log[n].op = "restart"
         /\ \E m \in 1..(n - 1) : log[m].op = "setReleased")
        => log[n].released = log[LastSet(n)].released

----------------------------------------------------------------------------
(* The slot count in the answer of a successful register *)

\* newStatus: `${targetProblem.selectedCount + 1}/${targetProblem.maxSelections}`
NewStatus(s) == view[s].selectedCount + 1

\* The step by which the registration of request s becomes part of the store.
Committed(s) ==
    /\ op[s].kind = "create"
    /\ \/ db = "json" /\ pc[s] = "rename" /\ pc'[s] = "unlink1" /\ result'[s] = "ok"
       \/ db = "mongo" /\ pc[s] = "commit" /\ pc'[s] = "returned" /\ result[s] = "ok"

\* C26: the slot count that a successful register reports equals the number
\* of registrations of the statement right after its registration was
\* committed, and does not exceed maxSelections, whatever ran between the
\* availability read and the atomic operation.
C26_ReportedSlotCount ==
    [][\A s \in Registrars :
          Committed(s) =>
              /\ NewStatus(s) =
                     RegCount(IF db = "json" THEN file'.registrations ELSE regs',
                              op[s].problemStatementId)
              /\ NewStatus(s) <= view[s].maxSelections]_vars

----------------------------------------------------------------------------
(* updateProblemStatement and POST /api/admin/limit-one-all *)

\* Values of updates.maxSelections, numbers as the admin page sends them.
LimitInputs == {0, 1, 3}

\* Math.max(1, parsed)
Clamp(parsed) == IF parsed < 1 THEN 1 ELSE parsed

\* The catalog with maxSelections of statement id replaced; an unknown id
\* changes nothing.
WithLimit(catalog, id, m) ==
    [i \in 1..Len(catalog) |->
        IF catalog[i].id = id THEN [catalog[i] EXCEPT !.maxSelections = Clamp(m)]
        ELSE catalog[i]]

RECURSIVE WithLimits(_, _, _)
WithLimits(catalog, ids, m) ==
    IF ids = {} THEN catalog
    ELSE LET id == CHOOSE x \in ids : TRUE
         IN WithLimits(WithLimit(catalog, id, m), ids \ {id}, m)

\* The sum of result.changes: DatabaseManager counts the statements found,
\* MongoStore the documents modified.
Changes(ids, m) ==
    IF db = "json"
    THEN Cardinality({id \in ids : FindPs(memoryData[HostOf(1)], id) # 0})
    ELSE Cardinality({id \in ids :
             /\ FindPs([problemStatements |-> psColl], id) # 0
             /\ psColl[FindPs([problemStatements |-> psColl], id)].maxSelections
                    # Clamp(m)})

\* updateProblemStatement of the active backend for every id in ids, one
\* after the other, while no other request is in flight: DatabaseManager
\* changes the document it holds in memory and writes it; MongoStore sets
\* the field.
UpdateAll(ids, m) ==
    /\ \A s \in SeqSlots : Idle(s)
    /\ calls < MaxSeqCalls
    /\ calls' = calls + 1
    /\ IF db = "json"
       THEN /\ IF Changes(ids, m) = 0
               THEN UNCHANGED <<file, memoryData>>
               ELSE /\ file' = [memoryData[HostOf(1)] EXCEPT
                                    !.problemStatements = WithLimits(@, ids, m)]
                    /\ memoryData' = [memoryData EXCEPT ![HostOf(1)] = file']
            /\ psColl' = psColl
       ELSE /\ psColl' = WithLimits(psColl, ids, m)
            /\ UNCHANGED <<file, memoryData>>
    /\ log' = Append(log, [kind |-> "update", team |-> <<>>, id |-> "",
                           outcome |-> "200 updated", changes |-> Changes(ids, m)])
    /\ UNCHANGED <<pc, op, result, tmp, lock, attempt, data, failed, changes,
                   preTaken, overlapped, expect, delMiss, mongoVars, svcVars,
                   db, exists, psIndex, thisDb, before, extraVars>>

\* db.updateProblemStatement(id, { maxSelections: m })
UpdateProblemStatement(id, m) == UpdateAll({id}, m)

\* POST /api/admin/limit-one-all
LimitOneAll == UpdateAll(PsIds, 1)

NextLimit ==
    \/ NextSeq
    \/ \E id \in {"ps001", "ps404"}, m \in LimitInputs : UpdateProblemStatement(id, m)
    \/ LimitOneAll

SpecLimit == InitSeq /\ [][NextLimit]_vars

\* C27: in every reachable state of either backend, also after
\* updateProblemStatement changed the maxSelections of a statement that has
\* registrations, no statement has more registrations than its maxSelections.
C27_CapacityAfterUpdate ==
    /\ db = "json" =>
           \A i \in 1..Len(file.problemStatements) :
               RegCount(file.registrations, file.problemStatements[i].id)
                   <= file.problemStatements[i].maxSelections
    /\ db = "mongo" =>
           \A i \in 1..Len(psColl) :
               RegCount(regs, psColl[i].id) <= psColl[i].maxSelections

----------------------------------------------------------------------------
(* Two register requests of one team side by side *)

\* Requests s and t register the same team, which had no registration when
\* either of them arrived, and both have been answered.
SameTeamRace(s, t) ==
    /\ s # t
    /\ pc[s] = "responded" /\ pc[t] = "responded"
    /\ op[s].kind = "create" /\ op[t].kind = "create"
    /\ op[s].teamNumber # <<>> /\ Team(s) = Team(t)
    /\ op[s].problemStatementId \in PsIds /\ op[t].problemStatementId \in PsIds
    /\ ~preTaken[s] /\ ~preTaken[t]

\* C28: of two register requests for the same team that run side by side,
\* one succeeds and the other is answered with the duplicate-team outcome,
\* on both backends.
C28_SameTeamRace ==
    \A s, t \in Registrars :
        SameTeamRace(s, t) =>
            {response[s], response[t]} = {"200 success", "409 team registered"}

----------------------------------------------------------------------------
(* Transactional Backend: createRegistrationAtomic on a drifted selectedCount *)

MaxDriftCalls == 3

\* Values of the cached selectedCount of ps001, below and above what two
\* registrations at most can make it.
DriftCounts == 0..3

DriftRegs ==
    { <<>>,
      << Record(<<"B">>, "ps001") >>,
      << Record(<<"B">>, "ps001"), Record(<<"C">>, "ps001") >> }

\* A store in which selectedCount of ps001 may differ from the number of
\* its registrations: deleteRegistration removes the document and then
\* decrements the counter in a second, unguarded update whose failure it
\* ignores.
InitDrift ==
    /\ InitCalls /\ InitFile /\ InitSvc /\ InitRun
    /\ regs \in DriftRegs
    /\ \E n \in DriftCounts : sel = [id \in PsIds |-> IF id = "ps001" THEN n ELSE 0]
    /\ cur = [s \in Slots |-> 0]
    /\ act = [s \in Slots |-> 0]
    /\ wsel = [s \in Slots |-> <<>>]
    /\ touched = [s \in Slots |-> NoTouch]
    /\ dreg = [s \in Slots |-> ""]
    /\ alone = [s \in Slots |-> FALSE]
    /\ preRegs = [s \in Slots |-> <<>>]
    /\ preSel = [s \in Slots |-> [id \in PsIds |-> 0]]

DriftCreate(s, teamNumber, id) ==
    /\ calls < MaxDriftCalls
    /\ MongoStartCreate(s, teamNumber, id)

NextDrift ==
    \E s \in Registrars :
        \/ \E r \in MongoRegisterInputs(s) : DriftCreate(s, r[1], r[2])
        \/ TxnRead(s)
        \/ TxnReconcile(s)
        \/ TxnReserve(s)
        \/ TxnInsert(s)
        \/ TxnCompensate(s)
        \/ TxnCommit(s)
        \/ MongoReturn(s)

SpecDrift == InitDrift /\ [][NextDrift]_vars

\* The call of s ran alone, for a team without registration and a statement
\* of the catalog whose selectedCount was not the number of its
\* registrations when the call began.
OnDrift(s) ==
    /\ pc[s] = "returned" /\ op[s].kind = "create"
    /\ alone[s]
    /\ op[s].problemStatementId \in PsIds
    /\ ~HasTeam(preRegs[s], Team(s))
    /\ preSel[s][op[s].problemStatementId]
           # RegCount(preRegs[s], op[s].problemStatementId)

\* C29: when selectedCount of a statement differs from the number of its
\* registrations, in either direction, createRegistrationAtomic for an
\* unregistered team succeeds exactly when that number is below
\* maxSelections, and after a success selectedCount is the number of
\* registrations.
C29_DecidesOnRealCount ==
    \A s \in Registrars :
        OnDrift(s) =>
            LET id == op[s].problemStatementId
            IN /\ result[s] = "ok" <=> RegCount(preRegs[s], id) < MaxSel(id)
               /\ result[s] = "ok" =>
                      /\ RegCount(regs, id) = RegCount(preRegs[s], id) + 1
                      /\ sel[id] = RegCount(regs, id)
               /\ result[s] # "ok" => result[s] = "null" /\ regs = preRegs[s]

\* A lone register succeeded although the cached counter said the statement
\* was full, and the counter is right afterwards.
C29_Witness ==
    \E s \in Registrars :
        /\ OnDrift(s)
        /\ result[s] = "ok"
        /\ preSel[s][op[s].problemStatementId] >= MaxSel(op[s].problemStatementId)
        /\ sel[op[s].problemStatementId] = RegCount(regs, op[s].problemStatementId)

----------------------------------------------------------------------------
(* Transactional Backend without the unique index on teamNumber *)

MaxNoIndexCalls == 3

\* The store after an init() whose regs.createIndex({ teamNumber: 1 },
\* { unique: true }) failed and was given up: no unique index on teamNumber.
InitNoIndex ==
    /\ InitCalls /\ InitFile /\ InitMongo /\ InitSvc
    /\ db = "unset"
    /\ log = <<>>
    /\ InitCatalog
    /\ InitRequests
    /\ regsIndex = FALSE

NoIndexCreate(s, teamNumber, id) ==
    /\ calls < MaxNoIndexCalls
    /\ MongoStartCreate(s, teamNumber, id)

NextNoIndex ==
    \E s \in Registrars :
        \/ \E r \in MongoRegisterInputs(s) : NoIndexCreate(s, r[1], r[2])
        \/ TxnRead(s)
        \/ TxnReserve(s)
        \/ TxnInsert(s)
        \/ TxnCommit(s)
        \/ MongoReturn(s)

SpecNoIndex == InitNoIndex /\ [][NextNoIndex]_vars

\* C30: on a Transactional Backend that runs without the unique index on
\* teamNumber, the existence check inside the transaction keeps the
\* registrations at one per teamNumber at most, also when two registers of
\* one team for different statements run side by side.
C30_NoIndexUniqueTeam ==
    ~regsIndex =>
        \A i \in 1..Len(regs) : \A j \in (i + 1)..Len(regs) :
            regs[i].teamNumber # regs[j].teamNumber

----------------------------------------------------------------------------
(* Transactional Backend: the sign of selectedCount *)

\* C31: in every reachable state of the Transactional Backend the stored
\* selectedCount of every statement is at least 0, however
\* createRegistrationAtomic and deleteRegistration calls interleave.
C31_SelectedCountNotNegative ==
    \A id \in PsIds : sel[id] >= 0

----------------------------------------------------------------------------
(* The catalog operations: createProblemStatement, importFromJSON,
   replaceFromJSON and resetAll *)

MaxCatalogCalls == 3

Item(id) == [id |-> id, maxSelections |-> SeedMaxSelections]

\* jsonData.problemStatements of the payloads: a new id, a new id twice, an
\* id of the catalog with a new one, and an id of the catalog twice.
Payloads ==
    { << Item("ps009") >>,
      << Item("ps009"), Item("ps009") >>,
      << Item("ps001"), Item("ps009") >>,
      << Item("ps001"), Item("ps001") >> }

HasId(catalog, id) == \E i \in 1..Len(catalog) : catalog[i].id = id

\* The items importFromJSON adds: those whose id was not in the catalog
\* when it was read; the set of known ids is not extended while the payload
\* is walked.
NotKnown(catalog, docs) == SelectSeq(docs, LAMBDA d : ~HasId(catalog, d.id))

\* ps.insertMany(docs), ordered: the documents up to the first one that the
\* unique index on id rejects.
RECURSIVE InsertMany(_, _)
InsertMany(coll, docs) ==
    IF docs = <<>> THEN coll
    ELSE IF psIndex /\ HasId(coll, Head(docs).id) THEN coll
    ELSE InsertMany(Append(coll, Head(docs)), Tail(docs))

\* insertMany has thrown E11000.
Rejected(coll, docs) == Len(InsertMany(coll, docs)) < Len(coll) + Len(docs)

catalogFrame == <<pc, op, result, tmp, lock, attempt, data, failed, changes,
                  preTaken, overlapped, expect, delMiss, cur, act, wsel, touched,
                  dreg, alone, preRegs, preSel, svcVars, db, exists, psIndex,
                  thisDb, before, extraVars>>

\* #atomicWrite(json) that runs alone: the document in memory, then the file.
AtomicWrite(json) ==
    /\ memoryData' = [memoryData EXCEPT ![HostOf(1)] = json]
    /\ file' = json

CatalogCall(kind, threw) ==
    /\ \A s \in SeqSlots : Idle(s)
    /\ calls < MaxCatalogCalls
    /\ calls' = calls + 1
    /\ log' = Append(log, [kind |-> kind, threw |-> threw])
    /\ UNCHANGED catalogFrame

CreateProblemStatement(id) ==
    /\ IF db = "json"
       THEN /\ IF HasId(memoryData[HostOf(1)].problemStatements, id)
               THEN UNCHANGED <<file, memoryData>>
               ELSE AtomicWrite([memoryData[HostOf(1)] EXCEPT
                                    !.problemStatements = Append(@, Item(id))])
            /\ UNCHANGED <<psColl, regs, sel>>
       ELSE /\ psColl' = InsertMany(psColl, << Item(id) >>)
            /\ UNCHANGED <<file, memoryData, regs, sel>>
    /\ CatalogCall("createProblemStatement", FALSE)

ImportFromJSON(docs) ==
    /\ IF db = "json"
       THEN /\ AtomicWrite([memoryData[HostOf(1)] EXCEPT !.problemStatements =
                                @ \o NotKnown(@, docs)])
            /\ UNCHANGED <<psColl, regs, sel>>
            /\ CatalogCall("importFromJSON", FALSE)
       ELSE /\ psColl' = InsertMany(psColl, NotKnown(psColl, docs))
            /\ UNCHANGED <<file, memoryData, regs, sel>>
            /\ CatalogCall("importFromJSON", Rejected(psColl, NotKnown(psColl, docs)))

ReplaceFromJSON(docs) ==
    /\ IF db = "json"
       THEN /\ AtomicWrite([problemStatements |-> docs, registrations |-> <<>>])
            /\ UNCHANGED <<psColl, regs, sel>>
            /\ CatalogCall("replaceFromJSON", FALSE)
       ELSE /\ regs' = <<>>
            /\ psColl' = InsertMany(<<>>, docs)
            /\ UNCHANGED <<file, memoryData, sel>>
            /\ CatalogCall("replaceFromJSON", Rejected(<<>>, docs))

\* resetAll: DatabaseManager writes the empty document and seeds the
\* defaults; MongoStore empties both collections and calls init().
ResetAll ==
    /\ IF db = "json"
       THEN /\ AtomicWrite([problemStatements |-> defaults, registrations |-> <<>>])
            /\ UNCHANGED <<psColl, regs, sel>>
       ELSE /\ regs' = <<>>
            /\ psColl' = IF AlreadyOpen(HostOf(1)) THEN <<>> ELSE defaults
            /\ sel' = [id \in PsIds |-> 0]
            /\ UNCHANGED <<file, memoryData>>
    /\ CatalogCall("resetAll", FALSE)

NextCatalog ==
    \/ \E id \in {"ps001", "ps009"} : CreateProblemStatement(id)
    \/ \E docs \in Payloads : ImportFromJSON(docs)
    \/ \E docs \in Payloads : ReplaceFromJSON(docs)
    \/ ResetAll

SpecCatalog == InitSeq /\ [][NextCatalog]_vars

\* C32: in every reachable state of either backend no two stored problem
\* statements have the same id, whatever createProblemStatement,
\* importFromJSON, replaceFromJSON, seeding and resetAll calls ran and also
\* when a payload names an id more than once.
C32_UniqueStatementIds ==
    /\ db = "json" => NoDuplicateIds(file.problemStatements)
    /\ db = "mongo" => NoDuplicateIds(psColl)

----------------------------------------------------------------------------
(* File Backend: deleteProblemStatement beside createRegistrationAtomic *)

\* Requests of one process: slot 1 registers, slot 3 deletes statements.
StatementDeleter == 3

WithoutStatement(d, id) ==
    [problemStatements |-> SelectSeq(d.problemStatements, LAMBDA p : p.id # id),
     registrations |-> SelectSeq(d.registrations, LAMBDA r : r.problemStatementId # id)]

DeleteStatementStart(s, id) ==
    /\ s = StatementDeleter
    /\ BeginCall(s, "deleteStatement", <<>>, id, FALSE, MaxCalls)
    /\ pc' = [pc EXCEPT ![s] = "psprep"]
    /\ UNCHANGED <<file, tmp, lock, memoryData, attempt, data, failed, changes>>
    /\ UNCHANGED mongoVars
    /\ UNCHANGED svcVars
    /\ UNCHANGED runVars

\* const data = await this.#read(); the two filters; #atomicWrite(data) up
\* to its first await.
DeleteStatementPrepare(s) ==
    /\ pc[s] = "psprep"
    /\ LET d   == memoryData[HostOf(s)]
           nxt == WithoutStatement(d, op[s].problemStatementId)
       IN /\ data' = [data EXCEPT ![s] = nxt]
          /\ memoryData' = [memoryData EXCEPT ![HostOf(s)] = nxt]
          /\ changes' = [changes EXCEPT ![s] =
                            Len(d.problemStatements) - Len(nxt.problemStatements)]
    /\ pc' = [pc EXCEPT ![s] = "writeTmp"]
    /\ UNCHANGED <<op, result, calls, file, tmp, lock, attempt, failed,
                   preTaken, overlapped, expect, delMiss>>
    /\ UNCHANGED mongoVars
    /\ UNCHANGED svcVars
    /\ UNCHANGED runVars

\* deleteProblemStatement returns (or throws); a completed delete is noted.
DeleteStatementReturn(s) ==
    /\ op[s].kind = "deleteStatement"
    /\ EndCall(s, "returned")
    /\ log' = IF result[s] = "ok"
              THEN Append(log, [kind |-> "deleteStatement",
                                id |-> op[s].problemStatementId])
              ELSE log
    /\ UNCHANGED <<calls, file, tmp, lock, memoryData>>
    /\ UNCHANGED mongoVars
    /\ UNCHANGED svcVars
    /\ UNCHANGED <<db, exists, psColl, psIndex, thisDb, before, extraVars>>

NextCascade ==
    \E s \in {1, StatementDeleter} :
        \/ \E r \in RegisterInputs(1) : s = 1 /\ FileStartCreate(s, r[1], r[2])
        \/ DeleteStatementStart(s, "ps001")
        \/ FileAcquire(s)
        \/ FileRead(s)
        \/ FileCheck(s)
        \/ AtomicWriteTmp(s)
        \/ AtomicWriteRename(s)
        \/ FileUnlinkFinally(s)
        \/ FileUnlinkCatch(s)
        \/ DeleteStatementPrepare(s)
        \/ op[s].kind = "create" /\ FileReturn(s)
        \/ DeleteStatementReturn(s)

SpecCascade == Init /\ [][NextCascade]_vars

\* C33: every registration is created for a statement that exists at that
\* moment, and once deleteProblemStatement(id) has completed no registration
\* references id, also when a register for id runs beside the delete.
C33_NoDanglingRegistration ==
    /\ [](\A n \in 1..Len(log) : RegCount(file.registrations, log[n].id) = 0)
    /\ [][\A i \in 1..Len(file'.registrations) :
             (\A j \in 1..Len(file.registrations) :
                  file.registrations[j] # file'.registrations[i])
             => FindPs(file, file'.registrations[i].problemStatementId) # 0]_vars

----------------------------------------------------------------------------
(* File Backend: a reported registration stays *)

\* createRegistrationAtomic has reported success for team k, and no call
\* for k ran beside that call.
Reported(k) ==
    \/ expect[k] = "present"
    \/ \E s \in Registrars : CreateReturned(s, "ok") /\ Team(s) = k /\ ~overlapped[s]

DeleteInFlight(k) ==
    \E s \in Slots : ~Idle(s) /\ op[s].kind = "delete" /\ Team(s) = k

\* C34: once createRegistrationAtomic has reported success for team T, no
\* step taken while no deleteRegistration of T is in flight removes T's
\* registration from the persisted document.
C34_ReportedRegistrationStays ==
    [][\A k \in TeamKeys :
          /\ Reported(k)
          /\ ~DeleteInFlight(k)
          /\ TeamTaken(file.registrations, k)
          => TeamTaken(file'.registrations, k)]_vars

----------------------------------------------------------------------------
(* File Backend: whose lock marker is removed *)

\* C35: a createRegistrationAtomic caller removes the lock marker only while
\* the marker is the one it created, on the way out of its critical section
\* and on the path where the critical section threw.
C35_RemovesOwnMarkerOnly ==
    [][lock # 0 /\ lock' = 0 =>
          \E s \in Registrars :
              /\ pc[s] \in {"unlink1", "unlink2"}
              /\ pc'[s] # pc[s]
              /\ lock = s]_vars

----------------------------------------------------------------------------
(* File Backend: the document in memory and the file, one process *)

\* The requests of process 1: slot 1 registers, slot 3 deletes.
OneProcess == { s \in Slots : HostOf(s) = 1 }

NextOneProcess ==
    \E s \in OneProcess :
        \/ \E r \in RegisterInputs(s) : s \in Registrars /\ FileStartCreate(s, r[1], r[2])
        \/ \E t \in DeleteInputs : s \in Deleters /\ FileStartDelete(s, t)
        \/ FileAcquire(s)
        \/ FileRead(s)
        \/ FileCheck(s)
        \/ AtomicWriteTmp(s)
        \/ AtomicWriteRename(s)
        \/ FileUnlinkFinally(s)
        \/ FileUnlinkCatch(s)
        \/ FileDeletePrepare(s)
        \/ FileReturn(s)

SpecOneProcess == Init /\ [][NextOneProcess]_vars

\* C36: whenever the only process that writes data.json has no call in
\* flight, the document it holds in memory is the persisted document; a
\* failed write leaves no registration in memory that the file lacks.
C36_CacheIsPersisted ==
    (\A s \in OneProcess : Idle(s)) => memoryData[1] = file

----------------------------------------------------------------------------
(* File Backend in blob-storage mode (this.useBlob true): the document is  *)
(* the blob data.json, which `file` stands for                             *)

\* if (!this.useBlob) { writeFile(lockFile, ..., { flag: 'wx' }) } is
\* skipped: the attempt goes straight to the re-read.
BlobAcquire(s) ==
    /\ pc[s] = "acquire"
    /\ pc' = [pc EXCEPT ![s] = "read"]
    /\ UNCHANGED <<op, result, calls, changes, preTaken, overlapped, expect, delMiss>>
    /\ UNCHANGED fileVars
    /\ UNCHANGED mongoVars
    /\ UNCHANGED svcVars
    /\ UNCHANGED runVars

\* #atomicWrite with useBlob: await put('data.json', str, ...), which
\* replaces the blob or throws (at most MaxSpins times in one call).
BlobPut(s) ==
    /\ pc[s] = "writeTmp"
    /\ \/ /\ file' = data[s]
          /\ result' = [result EXCEPT ![s] = "ok"]
          /\ failed' = failed
       \/ /\ attempt[s] < MaxSpins
          /\ file' = file
          /\ result' = result
          /\ failed' = [failed EXCEPT ![s] = TRUE]
    /\ pc' = [pc EXCEPT ![s] = "unlink1"]
    /\ UNCHANGED <<op, calls, tmp, lock, memoryData, attempt, data, changes,
                   preTaken, overlapped, expect, delMiss>>
    /\ UNCHANGED mongoVars
    /\ UNCHANGED svcVars
    /\ UNCHANGED runVars

\* finally { if (!this.useBlob) { unlink } }: nothing to release.
BlobFinally(s) ==
    /\ pc[s] = "unlink1"
    /\ pc' = [pc EXCEPT ![s] = IF failed[s] THEN "unlink2" ELSE "returned"]
    /\ UNCHANGED <<op, result, calls, changes, preTaken, overlapped, expect, delMiss>>
    /\ UNCHANGED fileVars
    /\ UNCHANGED mongoVars
    /\ UNCHANGED svcVars
    /\ UNCHANGED runVars

\* catch (error) { if (!this.useBlob) { unlink }; rethrow on the last
\* attempt, else wait and loop }
BlobCatch(s) ==
    /\ pc[s] = "unlink2"
    /\ failed' = [failed EXCEPT ![s] = FALSE]
    /\ IF attempt[s] = maxRetries - 1
       THEN /\ result' = [result EXCEPT ![s] = "throw"]
            /\ pc' = [pc EXCEPT ![s] = "returned"]
            /\ attempt' = attempt
       ELSE /\ result' = result
            /\ attempt' = [attempt EXCEPT ![s] = @ + 1]
            /\ pc' = [pc EXCEPT ![s] = "acquire"]
    /\ UNCHANGED <<op, calls, file, tmp, lock, memoryData, data, changes,
                   preTaken, overlapped, expect, delMiss>>
    /\ UNCHANGED mongoVars
    /\ UNCHANGED svcVars
    /\ UNCHANGED runVars

NextBlob ==
    \E s \in Registrars :
        \/ \E r \in RegisterInputs(s) : FileStartCreate(s, r[1], r[2])
        \/ BlobAcquire(s)
        \/ FileRead(s)
        \/ FileCheck(s)
        \/ BlobPut(s)
        \/ BlobFinally(s)
        \/ BlobCatch(s)
        \/ FileReturn(s)

SpecBlob == Init /\ [][NextBlob]_vars

\* Between the re-read of the blob and the end of the put.
InCheckAndWrite(s) ==
    op[s].kind = "create" /\ pc[s] \in {"check", "writeTmp"}

\* C37: in blob-storage mode no two createRegistrationAtomic callers are at
\* the same time between the re-read of the document and the end of the
\* write, so no two of them write from the same document version.
C37_BlobMutualExclusion ==
    \A s, t \in Registrars :
        InCheckAndWrite(s) /\ InCheckAndWrite(t) => s = t

----------------------------------------------------------------------------
(* File Backend: a caller that stops inside its critical section *)

\* The process of a caller is killed between the creation of the lock file
\* and its unlink: the request never continues and the marker stays.
Stop(s) ==
    /\ op[s].kind = "create"
    /\ pc[s] \in {"read", "check", "writeTmp", "rename"}
    /\ lock = s
    /\ pc' = [pc EXCEPT ![s] = "stopped"]
    /\ UNCHANGED <<op, result, calls, changes, preTaken, overlapped, expect, delMiss>>
    /\ UNCHANGED fileVars
    /\ UNCHANGED mongoVars
    /\ UNCHANGED svcVars
    /\ UNCHANGED runVars

\* The next step of a call in flight: every await of the call resolves and
\* every retry timer fires.  Registers alone never lose the temporary file,
\* so no write throws here and the catch block is not entered.
Continue(s) ==
    \/ FileAcquirePatient(s)
    \/ FileRead(s)
    \/ FileCheck(s)
    \/ AtomicWriteTmp(s)
    \/ AtomicWriteRename(s)
    \/ FileUnlinkFinally(s)
    \/ FileReturn(s)

NextStale ==
    \E s \in Registrars :
        \/ \E r \in RegisterInputs(s) : FileStartCreate(s, r[1], r[2])
        \/ Stop(s)
        \/ Continue(s)

\* Every step of a call moves its position or counts an attempt.
progress == <<pc, attempt>>

\* A call of a live process is never left waiting: the event loop runs its
\* continuation whenever there is one.
SpecStale ==
    /\ Init
    /\ [][NextStale]_vars
    /\ \A s \in Registrars : WF_progress(Continue(s))

\* The marker in place belongs to a caller that has stopped.
StaleMarker == \E t \in Registrars : pc[t] = "stopped" /\ lock = t

\* The call of s is for a free team and a statement with a free slot.
ForAvailable(s) ==
    /\ op[s].kind = "create"
    /\ ~TeamTaken(file.registrations, op[s].teamNumber)
    /\ FindPs(file, op[s].problemStatementId) # 0
    /\ ~IsFull(RegCount(file.registrations, op[s].problemStatementId),
               file.problemStatements[FindPs(file, op[s].problemStatementId)].maxSelections)

\* C38: a createRegistrationAtomic call for an available statement that
\* starts while the marker of a stopped caller is in place eventually
\* succeeds.
C38_StaleMarkerDoesNotBlock ==
    \A s \in Registrars :
        (StaleMarker /\ pc[s] = "acquire" /\ attempt[s] = 0 /\ ForAvailable(s))
            ~> (op[s].kind = "create" /\ result[s] = "ok")

\* Under SpecStale nothing removes the marker of a stopped caller: no code
\* path inspects the marker's age or the process id written into it.
StaleMarkerStays == [][StaleMarker => StaleMarker']_vars

====
